---- MODULE Spec2Model ----
(***************************************************************************)
(* X402Billing: the on-chain billing ledger (contracts/X402Billing.sol),   *)
(* the payment token it moves, and the gateway (backend/server.js) that    *)
(* drives it.  Every transaction is one atomic step.  A transaction whose  *)
(* require fails reverts: it leaves the chain state as it was, so it is a  *)
(* stuttering step, and what it returns is the value of the contract       *)
(* function (err) in the state it was called in.                           *)
(***************************************************************************)
EXTENDS Integers, Sequences, FiniteSets, TLC

(***************************************************************************)
(* Bounds of the model.                                                    *)
(***************************************************************************)
MaxPrice == 1        \* prices offered to registerApi / updateApiConfig: 0..MaxPrice
MaxUnits == 2        \* units offered to prepay / reportUsage: 0..MaxUnits
MaxPrepaid == 2      \* units prepaid over the ledger's life: callers stop prepaying then
InitialTokens == 2   \* payment tokens the funded account holds at deployment

(***************************************************************************)
(* Identities.                                                             *)
(***************************************************************************)
ZeroAddress == "0x0"
X402_ADDRESS == "x402"
PAYMENT_TOKEN_ADDRESS == "DEMO"
MeterWallet == "meter"
Alice == "alice"
Callers == {MeterWallet, Alice}
Addresses == Callers
Holders == Addresses \cup {X402_ADDRESS}

API_ID_HELLO == "demo/hello"
API_ID_RANDOM == "random/number"
ApiIds == {API_ID_HELLO, API_ID_RANDOM}
MetadataURIs == {"ipfs://demo-x402-api/"}
OffchainRefs == {"ref1"}
MaxUint256 == 2 ^ 30  \* type(uint256).max: the unlimited allowance

(***************************************************************************)
(* Revert reasons of the contract, under the names the design gives them.  *)
(***************************************************************************)
Ok == "ok"
AlreadyExists == "API already exists"
InvalidPaymentToken == "Invalid payment token"
InvalidPrice == "Invalid price"
NotApiProvider == "Not API provider"
NotFound == "API not found"
Inactive == "API not active"
InvalidUnits == "Units must be > 0"
InvalidConsumer == "Invalid consumer"
TransferFailed == "Token transfer failed"
InsufficientBalance == "Insufficient prepaid units"
DuplicateUsage == "Usage already exists"
InvalidState == "Usage not reportable/settleable"
InvalidTo == "Invalid to"
InvalidAmount == "Invalid amount"

\* The design's error kinds that cover several revert reasons.
Unauthorized == NotApiProvider
InvalidArgument ==
    {InvalidPaymentToken, InvalidPrice, InvalidUnits, InvalidConsumer, InvalidTo,
     InvalidAmount}

VARIABLES
    _apis,              \* apiId => ApiConfig
    _prepaidUnits,      \* apiId => consumer => prepaid units
    _providerBalances,  \* apiId => provider withdrawable balance
    _usageRecords,      \* usageId => UsageRecord, for the ids that left status None
    tokenBalance,       \* the payment token: holder => balance
    tokenAllowance,     \* the payment token: owner => allowance given to the ledger
    blockNumber,        \* block.number
    blockTimestamp,     \* block.timestamp
    withdrawn,          \* history: apiId => tokens paid out by withdrawProviderRevenue
    wd,                 \* gateway: request => progress of its POST /provider/withdraw handler
    requests,           \* gateway: requestId => progress of its POST to a business endpoint
    usageHistory,       \* gateway: the in-memory usage history
    now,                \* gateway: Math.floor(Date.now() / 1000)
    server,             \* gateway: progress of startup, and eip712Domain.chainId
    rd,                 \* gateway: request => progress of its GET /status or /provider-info
    received            \* history: apiId => tokens taken into custody by prepay

vars == <<_apis, _prepaidUnits, _providerBalances, _usageRecords, tokenBalance,
          tokenAllowance, blockNumber, blockTimestamp, withdrawn, wd, requests,
          usageHistory, now, server, rd, received>>

ledgerVars == <<_apis, _prepaidUnits, _providerBalances, _usageRecords>>
tokenVars == <<tokenBalance, tokenAllowance>>
blockVars == <<blockNumber, blockTimestamp>>
serverVars == <<server, rd>>
callVars == <<requests, usageHistory, now, serverVars>>
gatewayVars == <<wd, requests, usageHistory, now, serverVars>>

(***************************************************************************)
(* Storage zero values.                                                    *)
(***************************************************************************)
ZeroApiConfig ==
    [provider |-> ZeroAddress, paymentToken |-> ZeroAddress, pricePerUnit |-> 0,
     metadataURI |-> "", active |-> FALSE]

ZeroUsageRecord ==
    [apiId |-> "", consumer |-> ZeroAddress, units |-> 0, pricePerUnitSnapshot |-> 0,
     paymentToken |-> ZeroAddress, status |-> "None", offchainRef |-> ""]

\* keccak256(abi.encodePacked(...)): collision-free on the packed fields.
keccak256(apiId, consumer, units, offchainRef, timestamp, number) ==
    <<apiId, consumer, units, offchainRef, timestamp, number>>

\* The usage ids a caller may name: those of the records that exist, and those
\* a reportUsage mined in the current block would derive.
UsageIds ==
    DOMAIN _usageRecords \cup
    { keccak256(a, c, u, r, blockTimestamp, blockNumber) :
        a \in ApiIds, c \in Addresses, u \in 1..MaxUnits, r \in OffchainRefs }

getUsage(usageId) ==
    IF usageId \in DOMAIN _usageRecords THEN _usageRecords[usageId] ELSE ZeroUsageRecord

getApiConfig(apiId) == _apis[apiId]
prepaidUnits(apiId, consumer) == _prepaidUnits[apiId][consumer]
providerBalance(apiId) == _providerBalances[apiId]

(***************************************************************************)
(* The chain state a transaction starts from, and what a transaction       *)
(* returns: the state it leaves and err, its revert reason or Ok.  A       *)
(* revert returns the state the transaction started from.                  *)
(***************************************************************************)
Chain ==
    [apis |-> _apis, prepaid |-> _prepaidUnits, balances |-> _providerBalances,
     records |-> _usageRecords, token |-> tokenBalance, allowance |-> tokenAllowance]

Revert(reason) == [err |-> reason, usageId |-> <<>>, st |-> Chain]
Return(s) == [err |-> Ok, usageId |-> <<>>, st |-> s]

(***************************************************************************)
(* The payment token (IERC20).  A transfer that cannot be made returns     *)
(* ok = FALSE, which the caller's require turns into a revert.             *)
(***************************************************************************)
transferFrom(s, from, to, value) ==
    IF s.token[from] >= value /\ s.allowance[from] >= value
    THEN [ok |-> TRUE,
          st |-> [s EXCEPT !.token = [@ EXCEPT ![from] = @ - value, ![to] = @ + value],
                           !.allowance = [@ EXCEPT ![from] =
                                            IF @ = MaxUint256 THEN @ ELSE @ - value]]]
    ELSE [ok |-> FALSE, st |-> s]

transfer(s, from, to, value) ==
    IF s.token[from] >= value
    THEN [ok |-> TRUE,
          st |-> [s EXCEPT !.token = [@ EXCEPT ![from] = @ - value, ![to] = @ + value]]]
    ELSE [ok |-> FALSE, st |-> s]

(***************************************************************************)
(* X402Billing.                                                            *)
(***************************************************************************)
\* registerApi without the test that the apiId has no provider yet.
registerApi_NoExistenceCheck(sender, apiId, paymentToken, pricePerUnit, metadataURI) ==
    IF paymentToken = ZeroAddress THEN Revert(InvalidPaymentToken)
    ELSE IF ~(pricePerUnit > 0) THEN Revert(InvalidPrice)
    ELSE Return([Chain EXCEPT !.apis[apiId] =
                    [provider |-> sender, paymentToken |-> paymentToken,
                     pricePerUnit |-> pricePerUnit, metadataURI |-> metadataURI,
                     active |-> TRUE]])

registerApi(sender, apiId, paymentToken, pricePerUnit, metadataURI) ==
    LET cfg == _apis[apiId] IN
    IF cfg.provider # ZeroAddress THEN Revert(AlreadyExists)
    ELSE IF paymentToken = ZeroAddress THEN Revert(InvalidPaymentToken)
    ELSE IF ~(pricePerUnit > 0) THEN Revert(InvalidPrice)
    ELSE Return([Chain EXCEPT !.apis[apiId] =
                    [provider |-> sender, paymentToken |-> paymentToken,
                     pricePerUnit |-> pricePerUnit, metadataURI |-> metadataURI,
                     active |-> TRUE]])

updateApiConfig(sender, apiId, pricePerUnit, metadataURI, active) ==
    LET cfg == _apis[apiId] IN
    IF cfg.provider # sender THEN Revert(NotApiProvider)
    ELSE IF cfg.provider = ZeroAddress THEN Revert(NotFound)
    ELSE Return([Chain EXCEPT !.apis[apiId] =
                    [cfg EXCEPT !.pricePerUnit = pricePerUnit,
                                !.metadataURI = metadataURI,
                                !.active = active]])

\* prepay calling transferFrom without require on its result.
prepay_UncheckedTransfer(sender, apiId, units, consumer) ==
    LET cfg == _apis[apiId]
        amount == cfg.pricePerUnit * units
        paid == transferFrom(Chain, sender, X402_ADDRESS, amount)
    IN
    IF cfg.provider = ZeroAddress THEN Revert(NotFound)
    ELSE IF ~cfg.active THEN Revert(Inactive)
    ELSE IF ~(units > 0) THEN Revert(InvalidUnits)
    ELSE IF consumer = ZeroAddress THEN Revert(InvalidConsumer)
    ELSE Return([paid.st EXCEPT !.prepaid[apiId][consumer] = @ + units])

\* prepay charging the price of one unit whatever the number of units.
prepay_UnitPrice(sender, apiId, units, consumer) ==
    LET cfg == _apis[apiId]
        amount == cfg.pricePerUnit
        paid == transferFrom(Chain, sender, X402_ADDRESS, amount)
    IN
    IF cfg.provider = ZeroAddress THEN Revert(NotFound)
    ELSE IF ~cfg.active THEN Revert(Inactive)
    ELSE IF ~(units > 0) THEN Revert(InvalidUnits)
    ELSE IF consumer = ZeroAddress THEN Revert(InvalidConsumer)
    ELSE IF ~paid.ok THEN Revert(TransferFailed)
    ELSE Return([paid.st EXCEPT !.prepaid[apiId][consumer] = @ + units])

\* prepay without the test of the API's active flag.
prepay_NoActiveCheck(sender, apiId, units, consumer) ==
    LET cfg == _apis[apiId]
        amount == cfg.pricePerUnit * units
        paid == transferFrom(Chain, sender, X402_ADDRESS, amount)
    IN
    IF cfg.provider = ZeroAddress THEN Revert(NotFound)
    ELSE IF ~(units > 0) THEN Revert(InvalidUnits)
    ELSE IF consumer = ZeroAddress THEN Revert(InvalidConsumer)
    ELSE IF ~paid.ok THEN Revert(TransferFailed)
    ELSE Return([paid.st EXCEPT !.prepaid[apiId][consumer] = @ + units])

prepay(sender, apiId, units, consumer) ==
    LET cfg == _apis[apiId]
        amount == cfg.pricePerUnit * units
        paid == transferFrom(Chain, sender, X402_ADDRESS, amount)
    IN
    IF cfg.provider = ZeroAddress THEN Revert(NotFound)
    ELSE IF ~cfg.active THEN Revert(Inactive)
    ELSE IF ~(units > 0) THEN Revert(InvalidUnits)
    ELSE IF consumer = ZeroAddress THEN Revert(InvalidConsumer)
    ELSE IF ~paid.ok THEN Revert(TransferFailed)
    ELSE Return([paid.st EXCEPT !.prepaid[apiId][consumer] = @ + units])

\* reportUsage without the test that the derived usageId is still None.
reportUsage_NoExistenceCheck(sender, apiId, consumer, units, offchainRef) ==
    LET cfg == _apis[apiId]
        usageId == keccak256(apiId, consumer, units, offchainRef,
                             blockTimestamp, blockNumber)
        new == [apiId |-> apiId, consumer |-> consumer, units |-> units,
                pricePerUnitSnapshot |-> cfg.pricePerUnit,
                paymentToken |-> cfg.paymentToken, status |-> "Reported",
                offchainRef |-> offchainRef]
    IN
    IF cfg.provider = ZeroAddress THEN Revert(NotFound)
    ELSE IF ~(units > 0) THEN Revert(InvalidUnits)
    ELSE IF ~(_prepaidUnits[apiId][consumer] >= units) THEN Revert(InsufficientBalance)
    ELSE [err |-> Ok, usageId |-> usageId,
          st |-> [Chain EXCEPT !.prepaid[apiId][consumer] = @ - units,
                               !.records = [id \in DOMAIN @ \cup {usageId} |->
                                               IF id = usageId THEN new ELSE @[id]]]]

\* reportUsage with the balance test weakened to "the balance is not empty".
reportUsage_AnyBalance(sender, apiId, consumer, units, offchainRef) ==
    LET cfg == _apis[apiId]
        usageId == keccak256(apiId, consumer, units, offchainRef,
                             blockTimestamp, blockNumber)
        new == [apiId |-> apiId, consumer |-> consumer, units |-> units,
                pricePerUnitSnapshot |-> cfg.pricePerUnit,
                paymentToken |-> cfg.paymentToken, status |-> "Reported",
                offchainRef |-> offchainRef]
    IN
    IF cfg.provider = ZeroAddress THEN Revert(NotFound)
    ELSE IF ~(units > 0) THEN Revert(InvalidUnits)
    ELSE IF ~(_prepaidUnits[apiId][consumer] > 0) THEN Revert(InsufficientBalance)
    ELSE IF getUsage(usageId).status # "None" THEN Revert(DuplicateUsage)
    ELSE [err |-> Ok, usageId |-> usageId,
          st |-> [Chain EXCEPT !.prepaid[apiId][consumer] = @ - units,
                               !.records = [id \in DOMAIN @ \cup {usageId} |->
                                               IF id = usageId THEN new ELSE @[id]]]]

\* reportUsage without the test of the prepaid balance.
reportUsage_NoBalanceCheck(sender, apiId, consumer, units, offchainRef) ==
    LET cfg == _apis[apiId]
        usageId == keccak256(apiId, consumer, units, offchainRef,
                             blockTimestamp, blockNumber)
        new == [apiId |-> apiId, consumer |-> consumer, units |-> units,
                pricePerUnitSnapshot |-> cfg.pricePerUnit,
                paymentToken |-> cfg.paymentToken, status |-> "Reported",
                offchainRef |-> offchainRef]
    IN
    IF cfg.provider = ZeroAddress THEN Revert(NotFound)
    ELSE IF ~(units > 0) THEN Revert(InvalidUnits)
    ELSE IF getUsage(usageId).status # "None" THEN Revert(DuplicateUsage)
    ELSE [err |-> Ok, usageId |-> usageId,
          st |-> [Chain EXCEPT !.prepaid[apiId][consumer] = @ - units,
                               !.records = [id \in DOMAIN @ \cup {usageId} |->
                                               IF id = usageId THEN new ELSE @[id]]]]

\* reportUsage open to the API's provider only.
reportUsage_OnlyProvider(sender, apiId, consumer, units, offchainRef) ==
    LET cfg == _apis[apiId]
        usageId == keccak256(apiId, consumer, units, offchainRef,
                             blockTimestamp, blockNumber)
        new == [apiId |-> apiId, consumer |-> consumer, units |-> units,
                pricePerUnitSnapshot |-> cfg.pricePerUnit,
                paymentToken |-> cfg.paymentToken, status |-> "Reported",
                offchainRef |-> offchainRef]
    IN
    IF cfg.provider # sender THEN Revert(NotApiProvider)
    ELSE IF cfg.provider = ZeroAddress THEN Revert(NotFound)
    ELSE IF ~(units > 0) THEN Revert(InvalidUnits)
    ELSE IF ~(_prepaidUnits[apiId][consumer] >= units) THEN Revert(InsufficientBalance)
    ELSE IF getUsage(usageId).status # "None" THEN Revert(DuplicateUsage)
    ELSE [err |-> Ok, usageId |-> usageId,
          st |-> [Chain EXCEPT !.prepaid[apiId][consumer] = @ - units,
                               !.records = [id \in DOMAIN @ \cup {usageId} |->
                                               IF id = usageId THEN new ELSE @[id]]]]

\* reportUsage refusing an API whose active flag is false.
reportUsage_RequiresActive(sender, apiId, consumer, units, offchainRef) ==
    LET cfg == _apis[apiId]
        usageId == keccak256(apiId, consumer, units, offchainRef,
                             blockTimestamp, blockNumber)
        new == [apiId |-> apiId, consumer |-> consumer, units |-> units,
                pricePerUnitSnapshot |-> cfg.pricePerUnit,
                paymentToken |-> cfg.paymentToken, status |-> "Reported",
                offchainRef |-> offchainRef]
    IN
    IF cfg.provider = ZeroAddress THEN Revert(NotFound)
    ELSE IF ~cfg.active THEN Revert(Inactive)
    ELSE IF ~(units > 0) THEN Revert(InvalidUnits)
    ELSE IF ~(_prepaidUnits[apiId][consumer] >= units) THEN Revert(InsufficientBalance)
    ELSE IF getUsage(usageId).status # "None" THEN Revert(DuplicateUsage)
    ELSE [err |-> Ok, usageId |-> usageId,
          st |-> [Chain EXCEPT !.prepaid[apiId][consumer] = @ - units,
                               !.records = [id \in DOMAIN @ \cup {usageId} |->
                                               IF id = usageId THEN new ELSE @[id]]]]

reportUsage(sender, apiId, consumer, units, offchainRef) ==
    LET cfg == _apis[apiId]
        usageId == keccak256(apiId, consumer, units, offchainRef,
                             blockTimestamp, blockNumber)
        rec == getUsage(usageId)
        debited == [Chain EXCEPT !.prepaid[apiId][consumer] = @ - units]
        new == [apiId |-> apiId, consumer |-> consumer, units |-> units,
                pricePerUnitSnapshot |-> cfg.pricePerUnit,
                paymentToken |-> cfg.paymentToken, status |-> "Reported",
                offchainRef |-> offchainRef]
    IN
    IF cfg.provider = ZeroAddress THEN Revert(NotFound)
    ELSE IF ~(units > 0) THEN Revert(InvalidUnits)
    ELSE IF ~(_prepaidUnits[apiId][consumer] >= units) THEN Revert(InsufficientBalance)
    ELSE IF rec.status # "None" THEN Revert(DuplicateUsage)
    ELSE [err |-> Ok, usageId |-> usageId,
          st |-> [debited EXCEPT !.records =
                     [id \in DOMAIN debited.records \cup {usageId} |->
                         IF id = usageId THEN new ELSE debited.records[id]]]]

\* settleUsage crediting the record's amount to the revenue balance of every API.
settleUsage_SharedBalance(sender, usageId) ==
    LET rec == getUsage(usageId)
        cfg == IF rec.apiId \in ApiIds THEN _apis[rec.apiId] ELSE ZeroApiConfig
        amount == rec.units * rec.pricePerUnitSnapshot
    IN
    IF rec.status # "Reported" THEN Revert(InvalidState)
    ELSE IF cfg.provider = ZeroAddress THEN Revert(NotFound)
    ELSE Return([Chain EXCEPT !.balances = [a \in ApiIds |-> @[a] + amount],
                              !.records[usageId].status = "Settled"])

\* settleUsage crediting units at the API's live price instead of the snapshot.
settleUsage_LivePrice(sender, usageId) ==
    LET rec == getUsage(usageId)
        cfg == IF rec.apiId \in ApiIds THEN _apis[rec.apiId] ELSE ZeroApiConfig
        amount == rec.units * cfg.pricePerUnit
    IN
    IF rec.status # "Reported" THEN Revert(InvalidState)
    ELSE IF cfg.provider = ZeroAddress THEN Revert(NotFound)
    ELSE Return([Chain EXCEPT !.balances[rec.apiId] = @ + amount,
                              !.records[usageId].status = "Settled"])

\* settleUsage with the status test weakened to "a record exists".
settleUsage_AnyExisting(sender, usageId) ==
    LET rec == getUsage(usageId)
        amount == rec.units * rec.pricePerUnitSnapshot
    IN
    IF rec.status = "None" THEN Revert(InvalidState)
    ELSE Return([Chain EXCEPT !.balances[rec.apiId] = @ + amount,
                              !.records[usageId].status = "Settled"])

settleUsage(sender, usageId) ==
    LET rec == getUsage(usageId)
        cfg == IF rec.apiId \in ApiIds THEN _apis[rec.apiId] ELSE ZeroApiConfig
        amount == rec.units * rec.pricePerUnitSnapshot
    IN
    IF rec.status # "Reported" THEN Revert(InvalidState)
    ELSE IF cfg.provider = ZeroAddress THEN Revert(NotFound)
    ELSE Return([Chain EXCEPT !.balances[rec.apiId] = @ + amount,
                              !.records[usageId].status = "Settled"])

\* withdrawProviderRevenue without the test of amount against the balance.
withdrawProviderRevenue_NoBalanceCheck(sender, apiId, amount, to) ==
    LET bal == _providerBalances[apiId]
        decremented == [Chain EXCEPT !.balances[apiId] = bal - amount]
        sent == transfer(decremented, X402_ADDRESS, to, amount)
    IN
    IF _apis[apiId].provider # sender THEN Revert(NotApiProvider)
    ELSE IF to = ZeroAddress THEN Revert(InvalidTo)
    ELSE IF ~(amount > 0) THEN Revert(InvalidAmount)
    ELSE IF ~sent.ok THEN Revert(TransferFailed)
    ELSE Return(sent.st)

\* withdrawProviderRevenue without the onlyProvider modifier.
withdrawProviderRevenue_AnyCaller(sender, apiId, amount, to) ==
    LET bal == _providerBalances[apiId]
        decremented == [Chain EXCEPT !.balances[apiId] = bal - amount]
        sent == transfer(decremented, X402_ADDRESS, to, amount)
    IN
    IF to = ZeroAddress THEN Revert(InvalidTo)
    ELSE IF ~(amount > 0 /\ amount <= bal) THEN Revert(InvalidAmount)
    ELSE IF ~sent.ok THEN Revert(TransferFailed)
    ELSE Return(sent.st)

\* withdrawProviderRevenue calling transfer without require on its result.
withdrawProviderRevenue_UncheckedTransfer(sender, apiId, amount, to) ==
    LET bal == _providerBalances[apiId]
        decremented == [Chain EXCEPT !.balances[apiId] = bal - amount]
        sent == transfer(decremented, X402_ADDRESS, to, amount)
    IN
    IF _apis[apiId].provider # sender THEN Revert(NotApiProvider)
    ELSE IF to = ZeroAddress THEN Revert(InvalidTo)
    ELSE IF ~(amount > 0 /\ amount <= bal) THEN Revert(InvalidAmount)
    ELSE Return(sent.st)

withdrawProviderRevenue(sender, apiId, amount, to) ==
    LET bal == _providerBalances[apiId]
        decremented == [Chain EXCEPT !.balances[apiId] = bal - amount]
        token == _apis[apiId].paymentToken
        sent == transfer(decremented, X402_ADDRESS, to, amount)
    IN
    IF _apis[apiId].provider # sender THEN Revert(NotApiProvider)
    ELSE IF to = ZeroAddress THEN Revert(InvalidTo)
    ELSE IF ~(amount > 0 /\ amount <= bal) THEN Revert(InvalidAmount)
    ELSE IF ~sent.ok THEN Revert(TransferFailed)
    ELSE Return(sent.st)

(***************************************************************************)
(* Transactions.  Each is mined atomically: when the call does not revert, *)
(* the chain state becomes the one it returns.                             *)
(***************************************************************************)
Commit(r) ==
    /\ r.err = Ok
    /\ _apis' = r.st.apis
    /\ _prepaidUnits' = r.st.prepaid
    /\ _providerBalances' = r.st.balances
    /\ _usageRecords' = r.st.records
    /\ tokenBalance' = r.st.token
    /\ tokenAllowance' = r.st.allowance

RECURSIVE SumOver(_, _)
SumOver(S, f) ==
    IF S = {} THEN 0
    ELSE LET x == CHOOSE y \in S : TRUE IN f[x] + SumOver(S \ {x}, f)

\* Units held in prepaid balances, and units moved from them into usage records.
TotalPrepaid ==
    SumOver(ApiIds \X Addresses,
            [p \in ApiIds \X Addresses |-> _prepaidUnits[p[1]][p[2]]])
TotalReported ==
    SumOver(DOMAIN _usageRecords, [id \in DOMAIN _usageRecords |-> _usageRecords[id].units])

RegisterApi(sender, apiId, paymentToken, pricePerUnit, metadataURI) ==
    /\ Commit(registerApi(sender, apiId, paymentToken, pricePerUnit, metadataURI))
    /\ UNCHANGED <<blockVars, withdrawn, received, gatewayVars>>

UpdateApiConfig(sender, apiId, pricePerUnit, metadataURI, active) ==
    /\ Commit(updateApiConfig(sender, apiId, pricePerUnit, metadataURI, active))
    /\ UNCHANGED <<blockVars, withdrawn, received, gatewayVars>>

Prepay(sender, apiId, units, consumer) ==
    /\ Commit(prepay(sender, apiId, units, consumer))
    /\ TotalPrepaid + TotalReported + units <= MaxPrepaid
    /\ received' = [received EXCEPT ![apiId] =
                        @ + (tokenBalance'[X402_ADDRESS] - tokenBalance[X402_ADDRESS])]
    /\ UNCHANGED <<blockVars, withdrawn, gatewayVars>>

ReportUsage(sender, apiId, consumer, units, offchainRef) ==
    /\ Commit(reportUsage(sender, apiId, consumer, units, offchainRef))
    /\ UNCHANGED <<blockVars, withdrawn, received, gatewayVars>>

SettleUsage(sender, usageId) ==
    /\ Commit(settleUsage(sender, usageId))
    /\ UNCHANGED <<blockVars, withdrawn, received, gatewayVars>>

WithdrawProviderRevenue(sender, apiId, amount, to) ==
    /\ Commit(withdrawProviderRevenue(sender, apiId, amount, to))
    /\ withdrawn' = [withdrawn EXCEPT ![apiId] = @ + amount]
    /\ UNCHANGED <<blockVars, received, gatewayVars>>

(***************************************************************************)
(* The gateway's POST /provider/withdraw handler.  A request walks         *)
(* API_LIST; for each API it reads the config, then the revenue balance,   *)
(* then sends withdrawProviderRevenue for the balance it read.  Every      *)
(* await is a point where other requests and transactions interleave.      *)
(***************************************************************************)
WithdrawRequests == {"w1", "w2"}
API_LIST == <<API_ID_HELLO, API_ID_RANDOM>>

WdIdle == [pc |-> "idle", i |-> 0, bal |-> 0, to |-> ZeroAddress, results |-> <<>>]

\* The loop's continue / end of body: the next API, or the 200 response.
WdContinue(w) ==
    IF w.i < Len(API_LIST) THEN [w EXCEPT !.pc = "getApiConfig", !.i = @ + 1, !.bal = 0]
    ELSE [w EXCEPT !.pc = "ok", !.bal = 0]

\* to = req.body.to when it is an address, else the meter wallet's address.
WdStart(r, bodyTo) ==
    /\ wd[r].pc = "idle"
    /\ wd' = [wd EXCEPT ![r] =
                 WdContinue([WdIdle EXCEPT !.to = IF bodyTo \in Addresses THEN bodyTo
                                                  ELSE MeterWallet])]
    /\ UNCHANGED <<ledgerVars, tokenVars, blockVars, withdrawn, received, callVars>>

WdGetApiConfig(r) ==
    /\ wd[r].pc = "getApiConfig"
    /\ wd' = [wd EXCEPT ![r] =
                 IF getApiConfig(API_LIST[wd[r].i]).provider # MeterWallet
                 THEN WdContinue(wd[r])
                 ELSE [wd[r] EXCEPT !.pc = "providerBalance"]]
    /\ UNCHANGED <<ledgerVars, tokenVars, blockVars, withdrawn, received, callVars>>

WdProviderBalance(r) ==
    /\ wd[r].pc = "providerBalance"
    /\ wd' = [wd EXCEPT ![r] =
                 IF providerBalance(API_LIST[wd[r].i]) = 0
                 THEN WdContinue(wd[r])
                 ELSE [wd[r] EXCEPT !.pc = "withdraw",
                                    !.bal = providerBalance(API_LIST[wd[r].i])]]
    /\ UNCHANGED <<ledgerVars, tokenVars, blockVars, withdrawn, received, callVars>>

\* The transaction is mined, or it reverts and the handler answers 500.
WdWithdraw(r) ==
    LET w == wd[r]
        apiId == API_LIST[w.i]
        tx == withdrawProviderRevenue(MeterWallet, apiId, w.bal, w.to)
    IN
    /\ w.pc = "withdraw"
    /\ IF tx.err = Ok
       THEN /\ Commit(tx)
            /\ withdrawn' = [withdrawn EXCEPT ![apiId] = @ + w.bal]
            /\ wd' = [wd EXCEPT ![r] =
                         WdContinue([w EXCEPT !.results =
                             Append(@, [apiId |-> apiId, to |-> w.to, amount |-> w.bal])])]
       ELSE /\ wd' = [wd EXCEPT ![r] = [w EXCEPT !.pc = "failed"]]
            /\ UNCHANGED <<ledgerVars, tokenVars, withdrawn>>
    /\ UNCHANGED <<blockVars, received, callVars>>

(***************************************************************************)
(* Signed requests (EIP-712).  A signature is modelled by what ECDSA lets  *)
(* a verifier learn from it: the key that made it and the digest it was    *)
(* made over, the digest being collision-free on the domain and message.   *)
(* Recovering the signer against any other digest yields an address        *)
(* unrelated to every account.                                             *)
(***************************************************************************)
MaxTime == 3         \* the clock runs from 1 to MaxTime; deadlines lie before MaxTime

ChainId == 31337
\* eip712Domain: chainId holds 0 until initDomain has stored the network's.
eip712Domain ==
    [name |-> "X402Demo", version |-> "1", chainId |-> server.chainId,
     verifyingContract |-> X402_ADDRESS]

\* The domain of this deployment, as its clients sign under it.
DeployedDomain ==
    [name |-> "X402Demo", version |-> "1", chainId |-> ChainId,
     verifyingContract |-> X402_ADDRESS]

\* Domains a client may sign under: this deployment's, another chain's, another
\* ledger's.
Domains ==
    {DeployedDomain, [DeployedDomain EXCEPT !.chainId = 1],
     [DeployedDomain EXCEPT !.verifyingContract = "x402-other"]}

\* The Call message of EIP712_TYPES.
Message(consumer, apiId, nonce, deadline) ==
    [consumer |-> consumer, apiId |-> apiId, nonce |-> nonce, deadline |-> deadline]

TypedDataHash(domain, message) == <<domain, message>>

NoSignature == [signer |-> "", digest |-> <<>>]
UnrelatedAddress == "0xunrelated"

signTypedData(key, domain, message) ==
    [signer |-> key, digest |-> TypedDataHash(domain, message)]

verifyTypedData(domain, message, signature) ==
    IF signature.digest = TypedDataHash(domain, message) THEN signature.signer
    ELSE UnrelatedAddress

\* Request bodies.  A missing or falsy field is "" (consumer), 0 (nonce, deadline)
\* or NoSignature; "" stands as well for a consumer that is not an address.
Nonces == 0..1
Deadlines == 0..(MaxTime - 1)
Signatures ==
    {NoSignature} \cup
    { signTypedData(k, d, Message(Alice, a, 1, t)) :
        k \in Callers, d \in Domains, a \in ApiIds, t \in 1..(MaxTime - 1) }
Bodies ==
    [consumer : {Alice, ""}, nonce : Nonces, deadline : Deadlines,
     signature : Signatures]

MissingConsumer == "Missing or invalid consumer"
MissingFields == "Missing nonce/deadline/signature"
Expired == "Signature expired"
InvalidSignature == "Invalid signature"
Malformed == {MissingConsumer, MissingFields}

Accept(consumer) == [err |-> Ok, consumer |-> consumer]
Throw(message) == [err |-> message, consumer |-> ""]

\* verifySignedRequest without the deadline test.
verifySignedRequest_NoDeadlineCheck(body, expectedApiId) ==
    LET message == Message(body.consumer, expectedApiId, body.nonce, body.deadline)
        recovered == verifyTypedData(eip712Domain, message, body.signature)
    IN
    IF body.consumer \notin Addresses THEN Throw(MissingConsumer)
    ELSE IF body.nonce = 0 \/ body.deadline = 0 \/ body.signature = NoSignature
         THEN Throw(MissingFields)
    ELSE IF recovered # body.consumer THEN Throw(InvalidSignature)
    ELSE Accept(body.consumer)

\* verifySignedRequest recovering the signer but not comparing it with the consumer.
verifySignedRequest_AnySigner(body, expectedApiId) ==
    IF body.consumer \notin Addresses THEN Throw(MissingConsumer)
    ELSE IF body.nonce = 0 \/ body.deadline = 0 \/ body.signature = NoSignature
         THEN Throw(MissingFields)
    ELSE IF body.deadline < now THEN Throw(Expired)
    ELSE Accept(body.consumer)

\* verifySignedRequest refusing a consumer who already has an entry in the usage
\* history: a signature accepted once only.
verifySignedRequest_Once(body, expectedApiId) ==
    LET message == Message(body.consumer, expectedApiId, body.nonce, body.deadline)
        recovered == verifyTypedData(eip712Domain, message, body.signature)
    IN
    IF body.consumer \notin Addresses THEN Throw(MissingConsumer)
    ELSE IF body.nonce = 0 \/ body.deadline = 0 \/ body.signature = NoSignature
         THEN Throw(MissingFields)
    ELSE IF body.deadline < now THEN Throw(Expired)
    ELSE IF recovered # body.consumer THEN Throw(InvalidSignature)
    ELSE IF \E k \in 1..Len(usageHistory) : usageHistory[k].consumer = body.consumer
         THEN Throw(InvalidSignature)
    ELSE Accept(body.consumer)

verifySignedRequest(body, expectedApiId) ==
    LET message == Message(body.consumer, expectedApiId, body.nonce, body.deadline)
        recovered == verifyTypedData(eip712Domain, message, body.signature)
    IN
    IF body.consumer \notin Addresses THEN Throw(MissingConsumer)
    ELSE IF body.nonce = 0 \/ body.deadline = 0 \/ body.signature = NoSignature
         THEN Throw(MissingFields)
    ELSE IF body.deadline < now THEN Throw(Expired)
    ELSE IF recovered # body.consumer THEN Throw(InvalidSignature)
    ELSE Accept(body.consumer)

(***************************************************************************)
(* The gateway's business endpoints, POST /demo/hello and POST             *)
(* /random/number.  The two handlers have the same shape: verify the       *)
(* signed body against the endpoint's apiId (400 on failure), draw a       *)
(* requestId, send reportUsage for one unit and wait for it to be mined,   *)
(* read the usageId from its UsageReported event, send settleUsage and     *)
(* wait, then push the history entry and answer 200; a failure after       *)
(* verification answers 500.  A request is identified by the requestId it  *)
(* draws.                                                                  *)
(***************************************************************************)
RequestIds == {"1", "2"}
Endpoints == {"/demo/hello", "/random/number"}
EndpointApiId(e) == IF e = "/demo/hello" THEN API_ID_HELLO ELSE API_ID_RANDOM
OffchainRef(e, requestId) ==
    IF e = "/demo/hello" THEN <<"hello:", requestId>> ELSE <<"random:", requestId>>

NoBody == [consumer |-> "", nonce |-> 0, deadline |-> 0, signature |-> NoSignature]
NoBilling == [apiId |-> "", units |-> 0, usageId |-> <<>>]
RequestIdle ==
    [pc |-> "idle", endpoint |-> "", body |-> NoBody, consumer |-> "", usageId |-> <<>>,
     status |-> 0, details |-> "", billing |-> NoBilling]

\* The request arrives and is verified; nothing is awaited before the first
\* transaction is sent.
PostVerify(c, e, body) ==
    LET v == verifySignedRequest(body, EndpointApiId(e)) IN
    /\ server.pc = "listening"
    /\ requests[c].pc = "idle"
    /\ requests' = [requests EXCEPT ![c] =
                       IF v.err # Ok
                       THEN [RequestIdle EXCEPT !.pc = "done", !.endpoint = e,
                                                !.status = 400, !.details = v.err]
                       ELSE [RequestIdle EXCEPT !.pc = "reportUsage", !.endpoint = e,
                                                !.body = body, !.consumer = v.consumer]]
    /\ UNCHANGED <<ledgerVars, tokenVars, blockVars, withdrawn, received, wd, usageHistory,
                   now, serverVars>>

\* reportUsage is mined and the usageId is read from its event, or it reverts.
PostReportUsage(c) ==
    LET q == requests[c]
        tx == reportUsage(MeterWallet, EndpointApiId(q.endpoint), q.consumer, 1,
                          OffchainRef(q.endpoint, c))
    IN
    /\ q.pc = "reportUsage"
    /\ IF tx.err = Ok
       THEN /\ Commit(tx)
            /\ requests' = [requests EXCEPT ![c] =
                               [q EXCEPT !.pc = "settleUsage", !.usageId = tx.usageId]]
       ELSE /\ requests' = [requests EXCEPT ![c] =
                               [q EXCEPT !.pc = "done", !.status = 500,
                                         !.details = tx.err]]
            /\ UNCHANGED <<ledgerVars, tokenVars>>
    /\ UNCHANGED <<blockVars, withdrawn, received, wd, usageHistory, now, serverVars>>

\* The handler giving up with 500 at the settle step without sending the
\* settleUsage transaction.
PostSettleUsage_NoTransaction(c) ==
    LET q == requests[c] IN
    /\ q.pc = "settleUsage"
    /\ requests' = [requests EXCEPT ![c] =
                       [q EXCEPT !.pc = "done", !.status = 500,
                                 !.details = InvalidState]]
    /\ UNCHANGED <<ledgerVars, tokenVars, usageHistory>>
    /\ UNCHANGED <<blockVars, withdrawn, received, wd, now, serverVars>>

\* settleUsage answering 200 and pushing the history entry whether or not the
\* transaction succeeded.
PostSettleUsage_IgnoreRevert(c) ==
    LET q == requests[c]
        apiId == EndpointApiId(q.endpoint)
        tx == settleUsage(MeterWallet, q.usageId)
    IN
    /\ q.pc = "settleUsage"
    /\ IF tx.err = Ok THEN Commit(tx) ELSE UNCHANGED <<ledgerVars, tokenVars>>
    /\ usageHistory' = Append(usageHistory,
                          [usageId |-> q.usageId, apiId |-> apiId,
                           consumer |-> q.consumer, units |-> 1,
                           timestamp |-> now, requestId |-> c])
    /\ requests' = [requests EXCEPT ![c] =
                       [q EXCEPT !.pc = "done", !.status = 200,
                                 !.billing = [apiId |-> apiId, units |-> 1,
                                              usageId |-> q.usageId]]]
    /\ UNCHANGED <<blockVars, withdrawn, received, wd, now, serverVars>>

\* settleUsage is mined, the history entry is pushed and the response is sent,
\* or it reverts.
PostSettleUsage(c) ==
    LET q == requests[c]
        apiId == EndpointApiId(q.endpoint)
        tx == settleUsage(MeterWallet, q.usageId)
    IN
    /\ q.pc = "settleUsage"
    /\ IF tx.err = Ok
       THEN /\ Commit(tx)
            /\ usageHistory' = Append(usageHistory,
                                  [usageId |-> q.usageId, apiId |-> apiId,
                                   consumer |-> q.consumer, units |-> 1,
                                   timestamp |-> now, requestId |-> c])
            /\ requests' = [requests EXCEPT ![c] =
                               [q EXCEPT !.pc = "done", !.status = 200,
                                         !.billing = [apiId |-> apiId, units |-> 1,
                                                      usageId |-> q.usageId]]]
       ELSE /\ requests' = [requests EXCEPT ![c] =
                               [q EXCEPT !.pc = "done", !.status = 500,
                                         !.details = tx.err]]
            /\ UNCHANGED <<ledgerVars, tokenVars, usageHistory>>
    /\ UNCHANGED <<blockVars, withdrawn, received, wd, now, serverVars>>

\* A second passes, and the chain mines its next block.
Tick ==
    /\ now < MaxTime
    /\ now' = now + 1
    /\ blockNumber' = blockNumber + 1
    /\ blockTimestamp' = now + 1
    /\ UNCHANGED <<ledgerVars, tokenVars, withdrawn, received, wd, requests, usageHistory,
                   serverVars>>

\* pricePerUnit of ensureApisRegistered: one token, in the model's unit.
StartupPrice == 1

(***************************************************************************)
(* Startup of the gateway: initDomain stores the network's chainId in      *)
(* eip712Domain, ensureApisRegistered walks API_LIST and registers each    *)
(* API that has no provider yet, and only then the server listens.  A      *)
(* registerApi that reverts rejects the startup promise: the process ends  *)
(* without ever listening.                                                 *)
(***************************************************************************)
ServerStarting == [pc |-> "initDomain", i |-> 0, chainId |-> 0]
ServerListening == [pc |-> "listening", i |-> 0, chainId |-> ChainId]

\* The loop's continue / end of body: the next API, or app.listen.
EnsureContinue(sv) ==
    IF sv.i < Len(API_LIST) THEN [sv EXCEPT !.pc = "getApiConfig", !.i = @ + 1]
    ELSE [sv EXCEPT !.pc = "listening", !.i = 0]

\* initDomain not awaited and nothing after it: the server listens at once.
InitDomain_ListenAtOnce ==
    /\ server.pc = "initDomain"
    /\ server' = [server EXCEPT !.pc = "listening"]
    /\ UNCHANGED <<ledgerVars, tokenVars, blockVars, withdrawn, received, wd, requests,
                   usageHistory, now, rd>>

InitDomain ==
    /\ server.pc = "initDomain"
    /\ server' = EnsureContinue([server EXCEPT !.chainId = ChainId])
    /\ UNCHANGED <<ledgerVars, tokenVars, blockVars, withdrawn, received, wd, requests,
                   usageHistory, now, rd>>

EnsureGetApiConfig ==
    /\ server.pc = "getApiConfig"
    /\ server' = IF getApiConfig(API_LIST[server.i]).provider # ZeroAddress
                 THEN EnsureContinue(server)
                 ELSE [server EXCEPT !.pc = "registerApi"]
    /\ UNCHANGED <<ledgerVars, tokenVars, blockVars, withdrawn, received, wd, requests,
                   usageHistory, now, rd>>

EnsureRegisterApi ==
    LET tx == registerApi(MeterWallet, API_LIST[server.i], PAYMENT_TOKEN_ADDRESS,
                          StartupPrice, "ipfs://demo-x402-api/")
    IN
    /\ server.pc = "registerApi"
    /\ IF tx.err = Ok
       THEN /\ Commit(tx)
            /\ server' = EnsureContinue(server)
       ELSE /\ server' = [server EXCEPT !.pc = "crashed"]
            /\ UNCHANGED <<ledgerVars, tokenVars>>
    /\ UNCHANGED <<blockVars, withdrawn, received, wd, requests, usageHistory, now, rd>>

(***************************************************************************)
(* The gateway's read endpoints, GET /status and GET /provider-info.  Each *)
(* ledger read is a call of its own against the chain's latest state;      *)
(* transactions may be mined between two reads of one request.  seen       *)
(* collects, from the request's start on, the response every ledger state  *)
(* that existed would have given by itself.                                *)
(***************************************************************************)
ReadRequests == {"r1"}
Routes == {"/status", "/provider-info"}

\* /status answered from one ledger state.
StatusResponse(addr, apis, prepaid, balances) ==
    [apiId |-> API_ID_HELLO, consumer |-> addr,
     prepaidUnits |-> prepaid[API_ID_HELLO][addr],
     provider |-> apis[API_ID_HELLO].provider,
     providerBalance |-> balances[API_ID_HELLO],
     paymentToken |-> apis[API_ID_HELLO].paymentToken,
     pricePerUnit |-> apis[API_ID_HELLO].pricePerUnit]

ProviderInfoEntry(apiId, cfg, bal) ==
    [apiId |-> apiId, paymentToken |-> cfg.paymentToken,
     pricePerUnit |-> cfg.pricePerUnit, balance |-> bal]

RECURSIVE ProviderInfoFrom(_, _, _, _)
\* The entries of the APIs of API_LIST from index i on whose provider is addr.
ProviderInfoFrom(i, addr, apis, balances) ==
    IF i > Len(API_LIST) THEN <<>>
    ELSE IF apis[API_LIST[i]].provider # addr
         THEN ProviderInfoFrom(i + 1, addr, apis, balances)
         ELSE <<ProviderInfoEntry(API_LIST[i], apis[API_LIST[i]], balances[API_LIST[i]])>>
                  \o ProviderInfoFrom(i + 1, addr, apis, balances)

RECURSIVE SumBalances(_)
SumBalances(entries) ==
    IF entries = <<>> THEN 0 ELSE Head(entries).balance + SumBalances(Tail(entries))

\* /provider-info answered from one ledger state.
ProviderInfoResponse(addr, apis, balances) ==
    [provider |-> addr, apis |-> ProviderInfoFrom(1, addr, apis, balances),
     totalBalance |-> SumBalances(ProviderInfoFrom(1, addr, apis, balances))]

SnapshotResponse(route, addr, apis, prepaid, balances) ==
    IF route = "/status" THEN StatusResponse(addr, apis, prepaid, balances)
    ELSE ProviderInfoResponse(addr, apis, balances)

RdIdle ==
    [pc |-> "idle", route |-> "", addr |-> "", i |-> 0, prepaid |-> 0,
     cfg |-> ZeroApiConfig, apis |-> <<>>, total |-> 0, status |-> 0,
     response |-> <<>>, seen |-> {}]

RdStart(r, route, addr) ==
    /\ server.pc = "listening"
    /\ rd[r].pc = "idle"
    /\ rd' = [rd EXCEPT ![r] =
                 IF addr \notin Addresses
                 THEN [RdIdle EXCEPT !.pc = "done", !.route = route, !.status = 400]
                 ELSE [RdIdle EXCEPT
                          !.pc = IF route = "/status" THEN "prepaidUnits"
                                 ELSE "getApiConfig",
                          !.route = route, !.addr = addr, !.i = 1,
                          !.seen = {SnapshotResponse(route, addr, _apis, _prepaidUnits,
                                                     _providerBalances)}]]
    /\ UNCHANGED <<ledgerVars, tokenVars, blockVars, withdrawn, received, wd, requests,
                   usageHistory, now, server>>

RdPrepaidUnits(r) ==
    /\ rd[r].pc = "prepaidUnits"
    /\ rd' = [rd EXCEPT ![r] =
                 [@ EXCEPT !.pc = "getApiConfig",
                           !.prepaid = prepaidUnits(API_ID_HELLO, rd[r].addr)]]
    /\ UNCHANGED <<ledgerVars, tokenVars, blockVars, withdrawn, received, wd, requests,
                   usageHistory, now, server>>

RdGetApiConfig(r) ==
    /\ rd[r].pc = "getApiConfig"
    /\ rd' = [rd EXCEPT ![r] =
                 [@ EXCEPT !.pc = "providerBalance",
                           !.cfg = getApiConfig(API_LIST[rd[r].i])]]
    /\ UNCHANGED <<ledgerVars, tokenVars, blockVars, withdrawn, received, wd, requests,
                   usageHistory, now, server>>

\* The last read of /status, or of one turn of the /provider-info loop, and what
\* follows it without waiting: the response, or the next turn.
RdProviderBalance(r) ==
    LET q == rd[r]
        bal == providerBalance(API_LIST[q.i])
        kept == IF q.cfg.provider # q.addr THEN q
                ELSE [q EXCEPT !.total = @ + bal,
                               !.apis = Append(@, ProviderInfoEntry(API_LIST[q.i], q.cfg,
                                                                    bal))]
    IN
    /\ q.pc = "providerBalance"
    /\ rd' = [rd EXCEPT ![r] =
                 IF q.route = "/status"
                 THEN [q EXCEPT !.pc = "done", !.status = 200,
                                !.response =
                                    [apiId |-> API_ID_HELLO, consumer |-> q.addr,
                                     prepaidUnits |-> q.prepaid,
                                     provider |-> q.cfg.provider,
                                     providerBalance |-> bal,
                                     paymentToken |-> q.cfg.paymentToken,
                                     pricePerUnit |-> q.cfg.pricePerUnit]]
                 ELSE IF q.i < Len(API_LIST)
                 THEN [kept EXCEPT !.pc = "getApiConfig", !.i = @ + 1]
                 ELSE [kept EXCEPT !.pc = "done", !.status = 200,
                                   !.response = [provider |-> q.addr, apis |-> kept.apis,
                                                 totalBalance |-> kept.total]]]
    /\ UNCHANGED <<ledgerVars, tokenVars, blockVars, withdrawn, received, wd, requests,
                   usageHistory, now, server>>

\* A transaction for apiId is mined while read requests are in flight: each of
\* them has one more ledger state that existed during it.
ObservedTx(tx, apiId) ==
    LET paid == tx.st.token[X402_ADDRESS] - tokenBalance[X402_ADDRESS] IN
    /\ Commit(tx)
    /\ rd' = [r \in ReadRequests |->
                 IF rd[r].pc \in {"idle", "done"} THEN rd[r]
                 ELSE [rd[r] EXCEPT !.seen =
                          @ \cup {SnapshotResponse(rd[r].route, rd[r].addr, tx.st.apis,
                                                   tx.st.prepaid, tx.st.balances)}]]
    /\ received' = [received EXCEPT ![apiId] = IF paid > 0 THEN @ + paid ELSE @]
    /\ withdrawn' = [withdrawn EXCEPT ![apiId] = IF paid < 0 THEN @ - paid ELSE @]
    /\ UNCHANGED <<blockVars, wd, requests, usageHistory, now, server>>

(***************************************************************************)
(* The state after deployment (scripts/deploy.js) and after the accounts   *)
(* approved the ledger to pull their tokens (backend/prepay.js): an empty  *)
(* ledger, the consumer account funded with the payment token.             *)
(***************************************************************************)
Init ==
    /\ _apis = [a \in ApiIds |-> ZeroApiConfig]
    /\ _prepaidUnits = [a \in ApiIds |-> [c \in Addresses |-> 0]]
    /\ _providerBalances = [a \in ApiIds |-> 0]
    /\ _usageRecords = <<>>
    /\ tokenBalance = [h \in Holders |-> IF h = Alice THEN InitialTokens ELSE 0]
    /\ tokenAllowance = [c \in Callers |-> MaxUint256]
    /\ blockNumber = 0
    /\ blockTimestamp = 0
    /\ withdrawn = [a \in ApiIds |-> 0]
    /\ wd = [r \in WithdrawRequests |-> WdIdle]
    /\ requests = [c \in RequestIds |-> RequestIdle]
    /\ usageHistory = <<>>
    /\ now = 1
    /\ server = ServerListening
    /\ rd = [r \in ReadRequests |-> RdIdle]
    /\ received = [a \in ApiIds |-> 0]

MaxAmount == MaxPrice * MaxUnits
Prices == 0..MaxPrice
Units == 0..MaxUnits
Amounts == 0..MaxAmount

Next ==
    \/ \E s \in Callers, a \in ApiIds, t \in {PAYMENT_TOKEN_ADDRESS, ZeroAddress},
          p \in Prices, m \in MetadataURIs : RegisterApi(s, a, t, p, m)
    \/ \E s \in Callers, a \in ApiIds, p \in Prices, m \in MetadataURIs,
          act \in BOOLEAN : UpdateApiConfig(s, a, p, m, act)
    \/ \E s \in Callers, a \in ApiIds, u \in Units,
          c \in Addresses \cup {ZeroAddress} : Prepay(s, a, u, c)
    \/ \E s \in Callers, a \in ApiIds, c \in Addresses, u \in Units,
          r \in OffchainRefs : ReportUsage(s, a, c, u, r)
    \/ \E s \in Callers, id \in UsageIds : SettleUsage(s, id)
    \/ \E s \in Callers, a \in ApiIds, n \in Amounts,
          to \in Addresses \cup {ZeroAddress} : WithdrawProviderRevenue(s, a, n, to)

Spec == Init /\ [][Next]_vars

(***************************************************************************)
(* The gateway serving /provider/withdraw.  It listens once startup has    *)
(* registered the APIs of API_LIST with the meter wallet as provider;      *)
(* consumers prepay, usage is reported and settled one unit at a time, and *)
(* the provider may also withdraw by calling the ledger directly.          *)
(***************************************************************************)
RequestRefs == {"hello:1", "hello:2"}

InitWithdraw ==
    /\ _apis = [a \in ApiIds |->
                  [provider |-> MeterWallet, paymentToken |-> PAYMENT_TOKEN_ADDRESS,
                   pricePerUnit |-> StartupPrice,
                   metadataURI |-> "ipfs://demo-x402-api/", active |-> TRUE]]
    /\ _prepaidUnits = [a \in ApiIds |-> [c \in Addresses |-> 0]]
    /\ _providerBalances = [a \in ApiIds |-> 0]
    /\ _usageRecords = <<>>
    /\ tokenBalance = [h \in Holders |-> IF h = Alice THEN InitialTokens ELSE 0]
    /\ tokenAllowance = [c \in Callers |-> MaxUint256]
    /\ blockNumber = 0
    /\ blockTimestamp = 0
    /\ withdrawn = [a \in ApiIds |-> 0]
    /\ wd = [r \in WithdrawRequests |-> WdIdle]
    /\ requests = [c \in RequestIds |-> RequestIdle]
    /\ usageHistory = <<>>
    /\ now = 1
    /\ server = ServerListening
    /\ rd = [r \in ReadRequests |-> RdIdle]
    /\ received = [a \in ApiIds |-> 0]

NextWithdraw ==
    \/ \E a \in ApiIds, u \in Units : Prepay(Alice, a, u, Alice)
    \/ \E a \in ApiIds, r \in RequestRefs : ReportUsage(MeterWallet, a, Alice, 1, r)
    \/ \E id \in UsageIds : SettleUsage(MeterWallet, id)
    \/ \E a \in ApiIds, n \in Amounts, to \in Addresses :
          WithdrawProviderRevenue(MeterWallet, a, n, to)
    \/ \E r \in WithdrawRequests, to \in Addresses \cup {ZeroAddress} : WdStart(r, to)
    \/ \E r \in WithdrawRequests : WdGetApiConfig(r)
    \/ \E r \in WithdrawRequests : WdProviderBalance(r)
    \/ \E r \in WithdrawRequests : WdWithdraw(r)

SpecWithdraw == InitWithdraw /\ [][NextWithdraw]_vars

(***************************************************************************)
(* The gateway serving its business endpoints.  It listens once startup    *)
(* has registered the APIs; consumers prepay, clients post signed bodies,  *)
(* time passes, and anyone may settle a Reported record by calling the     *)
(* ledger directly.                                                        *)
(***************************************************************************)
InitGateway ==
    /\ _apis = [a \in ApiIds |->
                  [provider |-> MeterWallet, paymentToken |-> PAYMENT_TOKEN_ADDRESS,
                   pricePerUnit |-> StartupPrice,
                   metadataURI |-> "ipfs://demo-x402-api/", active |-> TRUE]]
    /\ _prepaidUnits = [a \in ApiIds |-> [c \in Addresses |-> 0]]
    /\ _providerBalances = [a \in ApiIds |-> 0]
    /\ _usageRecords = <<>>
    /\ tokenBalance = [h \in Holders |-> IF h = Alice THEN InitialTokens ELSE 0]
    /\ tokenAllowance = [c \in Callers |-> MaxUint256]
    /\ blockNumber = 1
    /\ blockTimestamp = 1
    /\ withdrawn = [a \in ApiIds |-> 0]
    /\ wd = [r \in WithdrawRequests |-> WdIdle]
    /\ requests = [c \in RequestIds |-> RequestIdle]
    /\ usageHistory = <<>>
    /\ now = 1
    /\ server = ServerListening
    /\ rd = [r \in ReadRequests |-> RdIdle]
    /\ received = [a \in ApiIds |-> 0]

NextGateway ==
    \/ \E a \in ApiIds, u \in Units : Prepay(Alice, a, u, Alice)
    \/ \E c \in RequestIds, e \in Endpoints, body \in Bodies : PostVerify(c, e, body)
    \/ \E c \in RequestIds : PostReportUsage(c)
    \/ \E c \in RequestIds : PostSettleUsage(c)
    \/ \E id \in DOMAIN _usageRecords : SettleUsage(Alice, id)
    \/ Tick

SpecGateway == InitGateway /\ [][NextGateway]_vars

\* The handlers are async functions: every awaited transaction is mined or
\* reverts, and the handler then runs on to its response.
FairSpecGateway ==
    /\ SpecGateway
    /\ \A c \in RequestIds :
          WF_vars(PostReportUsage(c)) /\ WF_vars(PostSettleUsage(c))

(***************************************************************************)
(* The gateway from the start of its process: the ledger is deployed and   *)
(* empty, anyone may register an API or prepay while the server starts,    *)
(* and clients post signed bodies.                                         *)
(***************************************************************************)
InitStartup ==
    /\ _apis = [a \in ApiIds |-> ZeroApiConfig]
    /\ _prepaidUnits = [a \in ApiIds |-> [c \in Addresses |-> 0]]
    /\ _providerBalances = [a \in ApiIds |-> 0]
    /\ _usageRecords = <<>>
    /\ tokenBalance = [h \in Holders |-> IF h = Alice THEN InitialTokens ELSE 0]
    /\ tokenAllowance = [c \in Callers |-> MaxUint256]
    /\ blockNumber = 1
    /\ blockTimestamp = 1
    /\ withdrawn = [a \in ApiIds |-> 0]
    /\ wd = [r \in WithdrawRequests |-> WdIdle]
    /\ requests = [c \in RequestIds |-> RequestIdle]
    /\ usageHistory = <<>>
    /\ now = 1
    /\ server = ServerStarting
    /\ rd = [r \in ReadRequests |-> RdIdle]
    /\ received = [a \in ApiIds |-> 0]

NextStartup ==
    \/ InitDomain
    \/ EnsureGetApiConfig
    \/ EnsureRegisterApi
    \/ \E a \in ApiIds : RegisterApi(Alice, a, PAYMENT_TOKEN_ADDRESS, StartupPrice,
                                     "ipfs://demo-x402-api/")
    \/ \E a \in ApiIds : Prepay(Alice, a, 1, Alice)
    \/ \E c \in RequestIds, e \in Endpoints, body \in Bodies : PostVerify(c, e, body)
    \/ \E c \in RequestIds : PostReportUsage(c)
    \/ \E c \in RequestIds : PostSettleUsage(c)

SpecStartup == InitStartup /\ [][NextStartup]_vars

(***************************************************************************)
(* The gateway serving its read endpoints while the ledger is in use:      *)
(* prepayments, usage reported and settled, withdrawals and config updates *)
(* by the provider are mined between the reads of a request.               *)
(***************************************************************************)
InitRead ==
    /\ _apis = [a \in ApiIds |->
                  [provider |-> MeterWallet, paymentToken |-> PAYMENT_TOKEN_ADDRESS,
                   pricePerUnit |-> StartupPrice,
                   metadataURI |-> "ipfs://demo-x402-api/", active |-> TRUE]]
    /\ _prepaidUnits = [a \in ApiIds |-> [c \in Addresses |-> 0]]
    /\ _providerBalances = [a \in ApiIds |-> 0]
    /\ _usageRecords = <<>>
    /\ tokenBalance = [h \in Holders |-> IF h = Alice THEN InitialTokens ELSE 0]
    /\ tokenAllowance = [c \in Callers |-> MaxUint256]
    /\ blockNumber = 1
    /\ blockTimestamp = 1
    /\ withdrawn = [a \in ApiIds |-> 0]
    /\ wd = [r \in WithdrawRequests |-> WdIdle]
    /\ requests = [c \in RequestIds |-> RequestIdle]
    /\ usageHistory = <<>>
    /\ now = 1
    /\ server = ServerListening
    /\ rd = [r \in ReadRequests |-> RdIdle]
    /\ received = [a \in ApiIds |-> 0]

NextRead ==
    \/ \E a \in ApiIds :
          /\ TotalPrepaid + TotalReported + 1 <= MaxPrepaid
          /\ ObservedTx(prepay(Alice, a, 1, Alice), a)
    \/ \E a \in ApiIds, r \in OffchainRefs :
          ObservedTx(reportUsage(MeterWallet, a, Alice, 1, r), a)
    \/ \E id \in DOMAIN _usageRecords :
          ObservedTx(settleUsage(MeterWallet, id), _usageRecords[id].apiId)
    \/ \E a \in ApiIds, n \in 1..MaxAmount :
          ObservedTx(withdrawProviderRevenue(MeterWallet, a, n, MeterWallet), a)
    \/ \E p \in Prices :
          ObservedTx(updateApiConfig(MeterWallet, API_ID_HELLO, p, "ipfs://demo-x402-api/",
                                     TRUE), API_ID_HELLO)
    \/ \E r \in ReadRequests, route \in Routes, addr \in Addresses \cup {""} :
          RdStart(r, route, addr)
    \/ \E r \in ReadRequests : RdPrepaidUnits(r)
    \/ \E r \in ReadRequests : RdGetApiConfig(r)
    \/ \E r \in ReadRequests : RdProviderBalance(r)

SpecRead == InitRead /\ [][NextRead]_vars

(***************************************************************************)
(* Accounting derived from the usage records.                              *)
(***************************************************************************)
RecordAmount(id) == _usageRecords[id].units * _usageRecords[id].pricePerUnitSnapshot

RecordsOf(apiId, status) ==
    { id \in DOMAIN _usageRecords :
        _usageRecords[id].apiId = apiId /\ _usageRecords[id].status = status }

\* What settlement has credited to an API so far: each Settled record once.
SettledAmount(apiId) ==
    SumOver(RecordsOf(apiId, "Settled"),
            [id \in RecordsOf(apiId, "Settled") |-> RecordAmount(id)])

(***************************************************************************)
(* C1.  settleUsage succeeds at most once per usageId: called on a record  *)
(* that is Settled or None it fails with InvalidState and returns the      *)
(* chain state unchanged; and everything ever credited to an API's revenue *)
(* (its balance plus what was withdrawn) is the sum of units * snapshot    *)
(* over its Settled records, each counted once.                            *)
(***************************************************************************)
C1_SettleAtMostOnce ==
    /\ \A s \in Callers, id \in UsageIds :
          getUsage(id).status # "Reported" =>
              /\ settleUsage(s, id).err = InvalidState
              /\ settleUsage(s, id).st = Chain
    /\ \A a \in ApiIds : _providerBalances[a] + withdrawn[a] = SettledAmount(a)

\* A record has been settled with a positive amount, and a second settleUsage on it
\* is refused.
C1_Witness ==
    \E id \in DOMAIN _usageRecords :
        /\ _usageRecords[id].status = "Settled"
        /\ RecordAmount(id) > 0
        /\ settleUsage(MeterWallet, id).err = InvalidState

(***************************************************************************)
(* C2.  reportUsage and the prepaid balance.                               *)
(***************************************************************************)
\* What a successful reportUsage(apiId, consumer, units, ref) leaves: the balance
\* lower by exactly units, and under the returned usageId a record with status
\* Reported that carries the same apiId, consumer and units.
C2_Success(res, a, c, u) ==
    res.err = Ok =>
        /\ res.st.prepaid[a][c] = _prepaidUnits[a][c] - u
        /\ res.usageId \in DOMAIN res.st.records
        /\ res.st.records[res.usageId].status = "Reported"
        /\ res.st.records[res.usageId].apiId = a
        /\ res.st.records[res.usageId].consumer = c
        /\ res.st.records[res.usageId].units = u

\* C2 as stated: whenever prepaidUnits(apiId, consumer) < units, reportUsage
\* fails with InsufficientBalance and leaves the balance unchanged; when it
\* succeeds, the balance decreases by exactly units and the Reported record
\* exists under the returned usageId.
C2_AsStated ==
    \A s \in Callers, a \in ApiIds, c \in Addresses, u \in Units, r \in OffchainRefs :
        LET res == reportUsage(s, a, c, u, r) IN
        /\ _prepaidUnits[a][c] < u =>
              res.err = InsufficientBalance /\ res.st.prepaid = _prepaidUnits
        /\ C2_Success(res, a, c, u)

\* C2 as amended: whenever prepaidUnits(apiId, consumer) < units, reportUsage
\* fails and leaves the chain state unchanged, with InsufficientBalance if the
\* API is registered and with NotFound if it is not; when it succeeds, the
\* balance decreases by exactly units and the Reported record exists under the
\* returned usageId.
C2_ReportNeedsBalance ==
    \A s \in Callers, a \in ApiIds, c \in Addresses, u \in Units, r \in OffchainRefs :
        LET res == reportUsage(s, a, c, u, r) IN
        /\ _prepaidUnits[a][c] < u =>
              /\ res.st = Chain
              /\ res.err = IF _apis[a].provider = ZeroAddress THEN NotFound
                           ELSE InsufficientBalance
        /\ C2_Success(res, a, c, u)

\* A reportUsage has consumed part of a balance (its Reported record exists), and a
\* further reportUsage for more than what is left is refused with InsufficientBalance.
C2_Witness ==
    \E id \in DOMAIN _usageRecords :
        LET rec == _usageRecords[id] IN
        /\ rec.status = "Reported"
        /\ _prepaidUnits[rec.apiId][rec.consumer] = 1
        /\ reportUsage(MeterWallet, rec.apiId, rec.consumer, 2, "ref1").err
               = InsufficientBalance

(***************************************************************************)
(* C3.  Across every step: a record that exists keeps its priceSnapshot    *)
(* (and its units); a record the step creates carries the pricePerUnit its *)
(* API had when the step began; and a step that moves a record from        *)
(* Reported to Settled raises the revenue balance of the record's API by   *)
(* exactly units * priceSnapshot, whatever the API's live price is by then.*)
(***************************************************************************)
C3_Step ==
    /\ \A id \in DOMAIN _usageRecords :
          /\ id \in DOMAIN _usageRecords'
          /\ _usageRecords'[id].pricePerUnitSnapshot
                 = _usageRecords[id].pricePerUnitSnapshot
          /\ _usageRecords'[id].units = _usageRecords[id].units
          /\ (_usageRecords[id].status = "Reported"
                 /\ _usageRecords'[id].status = "Settled") =>
                _providerBalances'[_usageRecords[id].apiId]
                    = _providerBalances[_usageRecords[id].apiId] + RecordAmount(id)
    /\ \A id \in DOMAIN _usageRecords' \ DOMAIN _usageRecords :
          _usageRecords'[id].pricePerUnitSnapshot
              = _apis[_usageRecords'[id].apiId].pricePerUnit

C3_SettleCreditsSnapshot == [][C3_Step]_vars

\* A record was settled and credited at its snapshot price although the API's live
\* price differs from the snapshot.
C3_Witness ==
    \E id \in DOMAIN _usageRecords :
        LET rec == _usageRecords[id] IN
        /\ rec.status = "Settled"
        /\ rec.pricePerUnitSnapshot = 1
        /\ _apis[rec.apiId].pricePerUnit = 0
        /\ _providerBalances[rec.apiId] = rec.units
        /\ rec.units = 2

(***************************************************************************)
(* C4.  Every successful prepay(apiId, u, consumer) by a payer has u > 0,  *)
(* raises prepaidUnits(apiId, consumer) by exactly u, lowers the payer's   *)
(* token balance by exactly pricePerUnit * u and raises the ledger's       *)
(* custody by the same amount, pricePerUnit being the API's price when the *)
(* call is made; the credit goes to the named consumer, payer or not.      *)
(***************************************************************************)
C4_Step ==
    \A s \in Callers, a \in ApiIds, u \in Units, c \in Addresses :
        Prepay(s, a, u, c) =>
            /\ u > 0
            /\ _prepaidUnits'[a][c] = _prepaidUnits[a][c] + u
            /\ tokenBalance'[s] = tokenBalance[s] - _apis[a].pricePerUnit * u
            /\ tokenBalance'[X402_ADDRESS]
                   = tokenBalance[X402_ADDRESS] + _apis[a].pricePerUnit * u

C4_PrepayCreditsAndCharges == [][C4_Step]_vars

\* The funded account paid for two units credited to another consumer: the meter
\* wallet holds the units, the ledger holds the payer's tokens.
C4_Witness ==
    \E a \in ApiIds :
        /\ _prepaidUnits[a][MeterWallet] = 2
        /\ _prepaidUnits[a][Alice] = 0
        /\ _apis[a].pricePerUnit = 1
        /\ tokenBalance[X402_ADDRESS] = 2
        /\ tokenBalance[Alice] = InitialTokens - 2
        /\ _usageRecords = <<>>

(***************************************************************************)
(* C5.  Every prepaid balance is non-negative in every reachable state;    *)
(* across a step, prepaidUnits(apiId, consumer) increases only if the step *)
(* is a successful prepay naming (apiId, consumer), decreases only if it   *)
(* is a successful reportUsage naming (apiId, consumer), and a step of     *)
(* registerApi, updateApiConfig, settleUsage or withdraw changes no        *)
(* prepaid balance.                                                        *)
(***************************************************************************)
C5_NonNegative ==
    \A a \in ApiIds, c \in Addresses : _prepaidUnits[a][c] >= 0

IsRegisterApi ==
    \E s \in Callers, a \in ApiIds, t \in {PAYMENT_TOKEN_ADDRESS, ZeroAddress},
       p \in Prices, m \in MetadataURIs : RegisterApi(s, a, t, p, m)
IsUpdateApiConfig ==
    \E s \in Callers, a \in ApiIds, p \in Prices, m \in MetadataURIs, act \in BOOLEAN :
        UpdateApiConfig(s, a, p, m, act)
IsSettleUsage == \E s \in Callers, id \in UsageIds : SettleUsage(s, id)
IsWithdraw ==
    \E s \in Callers, a \in ApiIds, n \in Amounts, to \in Addresses :
        WithdrawProviderRevenue(s, a, n, to)

C5_Step ==
    /\ \A a \in ApiIds, c \in Addresses :
          /\ _prepaidUnits'[a][c] > _prepaidUnits[a][c] =>
                \E s \in Callers, u \in Units : Prepay(s, a, u, c)
          /\ _prepaidUnits'[a][c] < _prepaidUnits[a][c] =>
                \E s \in Callers, u \in Units, r \in OffchainRefs :
                    ReportUsage(s, a, c, u, r)
    /\ (IsRegisterApi \/ IsUpdateApiConfig \/ IsSettleUsage \/ IsWithdraw) =>
          _prepaidUnits' = _prepaidUnits

C5_PrepaidBalance == []C5_NonNegative /\ [][C5_Step]_vars

\* One consumer's balance has been raised by prepay and lowered by reportUsage while
\* another balance of the same API holds units and the API earned revenue that was
\* withdrawn.
C5_Witness ==
    \E a \in ApiIds :
        /\ _prepaidUnits[a][Alice] = 0
        /\ _prepaidUnits[a][MeterWallet] = 1
        /\ \E id \in DOMAIN _usageRecords :
              /\ _usageRecords[id].apiId = a
              /\ _usageRecords[id].consumer = Alice
              /\ _usageRecords[id].status = "Settled"
        /\ withdrawn[a] = 1

(***************************************************************************)
(* C6.  Every revenue balance is non-negative in every reachable state;    *)
(* across a step, RevenueBalance(apiId) increases only if the step is a    *)
(* successful settleUsage of a record that was Reported for that apiId,    *)
(* and decreases only if it is a successful withdraw for that apiId called *)
(* by the API's provider: called by anyone else, withdraw fails.           *)
(***************************************************************************)
C6_NonNegative ==
    /\ \A a \in ApiIds : _providerBalances[a] >= 0
    /\ \A s \in Callers, a \in ApiIds, n \in Amounts, to \in Addresses :
          s # _apis[a].provider => withdrawProviderRevenue(s, a, n, to).err # Ok

C6_Step ==
    \A a \in ApiIds :
        /\ _providerBalances'[a] > _providerBalances[a] =>
              \E id \in DOMAIN _usageRecords :
                  /\ _usageRecords[id].status = "Reported"
                  /\ _usageRecords[id].apiId = a
                  /\ \E s \in Callers : SettleUsage(s, id)
        /\ _providerBalances'[a] < _providerBalances[a] =>
              \E n \in Amounts, to \in Addresses :
                  WithdrawProviderRevenue(_apis[a].provider, a, n, to)

C6_RevenueBalance == []C6_NonNegative /\ [][C6_Step]_vars

\* An API's revenue was raised by a settlement and lowered by its provider's
\* withdrawal, while the other caller is refused.
C6_Witness ==
    \E a \in ApiIds :
        /\ _providerBalances[a] = 1
        /\ withdrawn[a] = 1
        /\ _apis[a].provider = MeterWallet
        /\ withdrawProviderRevenue(Alice, a, 1, Alice).err = NotApiProvider
        /\ withdrawProviderRevenue(MeterWallet, a, 1, Alice).err = Ok

(***************************************************************************)
(* C7.  Withdrawals racing on one revenue balance.  In every reachable     *)
(* state of the ledger driven by direct withdraw calls and by concurrent   *)
(* /provider/withdraw requests, no revenue balance is negative and what    *)
(* has been paid out for an API never exceeds what was settled for it      *)
(* (balance + paid out = settled).  Across a step, a payout of n for an    *)
(* API needs n <= its balance and lowers the balance by n; and when two    *)
(* requests hold balances read for the same API whose sum exceeds the      *)
(* balance, the success of one leaves less than the other asks for.        *)
(***************************************************************************)
C7_NeverOverdrawn ==
    \A a \in ApiIds :
        /\ _providerBalances[a] >= 0
        /\ withdrawn[a] <= SettledAmount(a)
        /\ _providerBalances[a] + withdrawn[a] = SettledAmount(a)

C7_Step ==
    /\ \A a \in ApiIds :
          withdrawn'[a] > withdrawn[a] =>
              /\ withdrawn'[a] - withdrawn[a] <= _providerBalances[a]
              /\ _providerBalances'[a]
                     = _providerBalances[a] - (withdrawn'[a] - withdrawn[a])
    /\ \A r1, r2 \in WithdrawRequests :
          (/\ r1 # r2
           /\ wd[r1].pc = "withdraw" /\ wd[r2].pc = "withdraw"
           /\ wd[r1].i = wd[r2].i
           /\ wd[r1].bal + wd[r2].bal > _providerBalances[API_LIST[wd[r1].i]]
           /\ Len(wd'[r1].results) > Len(wd[r1].results)) =>
              /\ _providerBalances'[API_LIST[wd[r1].i]] < wd[r2].bal
              /\ (withdrawProviderRevenue(MeterWallet, API_LIST[wd[r2].i],
                                          wd[r2].bal, wd[r2].to).err)' = InvalidAmount

C7_RacingWithdrawals == []C7_NeverOverdrawn /\ [][C7_Step]_vars

\* Two requests read the same balance of the same API; one was paid, the other's
\* withdraw reverted and it answered 500.
C7_Witness ==
    \E r1, r2 \in WithdrawRequests :
        /\ wd[r1].pc = "ok"
        /\ wd[r2].pc = "failed"
        /\ \E k \in 1..Len(wd[r1].results) :
              /\ wd[r1].results[k].apiId = API_LIST[wd[r2].i]
              /\ wd[r1].results[k].amount = wd[r2].bal
        /\ withdrawn[API_LIST[wd[r2].i]] = wd[r2].bal
        /\ _providerBalances[API_LIST[wd[r2].i]] = 0

(***************************************************************************)
(* C8.  withdraw is all-or-nothing with respect to the token transfer: a   *)
(* withdraw that passes its own tests but whose transfer to the            *)
(* destination fails, fails as a whole (TransferFailed) and returns the    *)
(* chain state it was called in, so the revenue balance keeps its value    *)
(* and a retry decrements it at most once; and across every step, what an  *)
(* API's revenue balance loses is what the ledger's custody pays out.      *)
(***************************************************************************)
C8_FailedTransferReverts ==
    \A s \in Callers, a \in ApiIds, n \in Amounts, to \in Addresses :
        (/\ s = _apis[a].provider
         /\ n > 0 /\ n <= _providerBalances[a]
         /\ ~transfer(Chain, X402_ADDRESS, to, n).ok) =>
            /\ withdrawProviderRevenue(s, a, n, to).err = TransferFailed
            /\ withdrawProviderRevenue(s, a, n, to).st = Chain

C8_Step ==
    \A a \in ApiIds :
        _providerBalances'[a] < _providerBalances[a] =>
            tokenBalance[X402_ADDRESS] - tokenBalance'[X402_ADDRESS]
                = _providerBalances[a] - _providerBalances'[a]

C8_WithdrawAllOrNothing == []C8_FailedTransferReverts /\ [][C8_Step]_vars

\* An API's revenue balance exceeds what the ledger holds: its provider's withdraw of
\* the whole balance fails in the transfer, and the balance is still there.
C8_Witness ==
    \E a \in ApiIds :
        /\ _apis[a].provider = MeterWallet
        /\ _providerBalances[a] = 2
        /\ tokenBalance[X402_ADDRESS] = 1
        /\ withdrawProviderRevenue(MeterWallet, a, 2, MeterWallet).err = TransferFailed
        /\ withdrawProviderRevenue(MeterWallet, a, 1, MeterWallet).err = Ok

(***************************************************************************)
(* C9.  prepay is all-or-nothing with respect to the token transfer: a     *)
(* prepay that passes its own tests but whose transferFrom(payer, ledger,  *)
(* amount) fails, fails as a whole (TransferFailed) and returns the chain  *)
(* state it was called in; and across every step, a prepaid balance that   *)
(* grows by u units comes with the ledger's custody growing by the API's   *)
(* pricePerUnit * u, taken from a payer.                                   *)
(***************************************************************************)
C9_FailedTransferReverts ==
    \A s \in Callers, a \in ApiIds, u \in Units, c \in Addresses :
        (/\ _apis[a].provider # ZeroAddress
         /\ _apis[a].active
         /\ u > 0
         /\ ~transferFrom(Chain, s, X402_ADDRESS, _apis[a].pricePerUnit * u).ok) =>
            /\ prepay(s, a, u, c).err = TransferFailed
            /\ prepay(s, a, u, c).st = Chain

C9_Step ==
    \A a \in ApiIds, c \in Addresses :
        _prepaidUnits'[a][c] > _prepaidUnits[a][c] =>
            LET amount == _apis[a].pricePerUnit * (_prepaidUnits'[a][c] - _prepaidUnits[a][c])
            IN  /\ tokenBalance'[X402_ADDRESS] = tokenBalance[X402_ADDRESS] + amount
                /\ \E s \in Callers : tokenBalance'[s] = tokenBalance[s] - amount

C9_PrepayAllOrNothing == []C9_FailedTransferReverts /\ [][C9_Step]_vars

\* The funded account has prepaid one unit and holds one token; a prepay of two more
\* units fails in the transfer, as does any prepay by the account that holds none.
C9_Witness ==
    \E a \in ApiIds :
        /\ _apis[a].active
        /\ _apis[a].pricePerUnit = 1
        /\ _prepaidUnits[a][Alice] = 1
        /\ tokenBalance[Alice] = 1
        /\ tokenBalance[MeterWallet] = 0
        /\ prepay(Alice, a, 2, Alice).err = TransferFailed
        /\ prepay(MeterWallet, a, 1, Alice).err = TransferFailed

(***************************************************************************)
(* C10.  The status of every usageId moves only along None -> Reported ->  *)
(* Settled: None becomes Reported only in a successful reportUsage that    *)
(* derives that usageId, Reported becomes Settled only in a successful     *)
(* settleUsage of that usageId, a Settled record is changed by no step,    *)
(* no record returns to None, and None never becomes Settled directly.     *)
(***************************************************************************)
StatusOf(records, id) == IF id \in DOMAIN records THEN records[id].status ELSE "None"

C10_Step ==
    \A id \in DOMAIN _usageRecords \cup DOMAIN _usageRecords' :
        LET old == StatusOf(_usageRecords, id)
            new == StatusOf(_usageRecords', id)
        IN
        /\ <<old, new>> \in {<<"None", "None">>, <<"None", "Reported">>,
                             <<"Reported", "Reported">>, <<"Reported", "Settled">>,
                             <<"Settled", "Settled">>}
        /\ (old = "None" /\ new = "Reported") =>
              \E s \in Callers, a \in ApiIds, c \in Addresses, u \in Units,
                 r \in OffchainRefs :
                  /\ ReportUsage(s, a, c, u, r)
                  /\ id = keccak256(a, c, u, r, blockTimestamp, blockNumber)
        /\ (old = "Reported" /\ new = "Settled") =>
              \E s \in Callers : SettleUsage(s, id)
        /\ old = "Settled" => _usageRecords'[id] = _usageRecords[id]

C10_StatusMovesForward == [][C10_Step]_vars

\* One record has gone all the way to Settled while another one is Reported.
C10_Witness ==
    \E id1, id2 \in DOMAIN _usageRecords :
        /\ _usageRecords[id1].status = "Settled"
        /\ _usageRecords[id2].status = "Reported"

(***************************************************************************)
(* C11.  Duplicate usage ids.                                              *)
(***************************************************************************)
\* The usageId reportUsage(apiId, consumer, units, offchainRef) derives in the
\* current block.
DerivedUsageId(a, c, u, r) == keccak256(a, c, u, r, blockTimestamp, blockNumber)

\* C11 as stated: whenever the usageId derived by reportUsage already has a
\* non-None status, the call fails with DuplicateUsage, the existing record is
\* not overwritten and the consumer's prepaid balance is not decremented.
C11_AsStated ==
    \A s \in Callers, a \in ApiIds, c \in Addresses, u \in Units, r \in OffchainRefs :
        getUsage(DerivedUsageId(a, c, u, r)).status # "None" =>
            /\ reportUsage(s, a, c, u, r).err = DuplicateUsage
            /\ reportUsage(s, a, c, u, r).st = Chain

\* C11 as amended: whenever the derived usageId already has a non-None status
\* the call fails and returns the chain state unchanged (no record overwritten,
\* no balance decremented); its error is DuplicateUsage when the consumer's
\* balance covers the units, and InsufficientBalance when it does not, the
\* balance test coming first.
C11_DuplicateRefused ==
    \A s \in Callers, a \in ApiIds, c \in Addresses, u \in Units, r \in OffchainRefs :
        getUsage(DerivedUsageId(a, c, u, r)).status # "None" =>
            /\ reportUsage(s, a, c, u, r).st = Chain
            /\ reportUsage(s, a, c, u, r).err =
                  IF _prepaidUnits[a][c] >= u THEN DuplicateUsage
                  ELSE InsufficientBalance

\* Across every step, a successful reportUsage returns a usageId no record had
\* before (so no two successful calls return the same one), and leaves every
\* record that existed as it was.
C11_Step ==
    \A s \in Callers, a \in ApiIds, c \in Addresses, u \in Units, r \in OffchainRefs :
        ReportUsage(s, a, c, u, r) =>
            /\ DerivedUsageId(a, c, u, r) \notin DOMAIN _usageRecords
            /\ DOMAIN _usageRecords' = DOMAIN _usageRecords \cup {DerivedUsageId(a, c, u, r)}
            /\ \A id \in DOMAIN _usageRecords : _usageRecords'[id] = _usageRecords[id]

C11_NoDuplicateUsage == []C11_DuplicateRefused /\ [][C11_Step]_vars

\* A usage was reported, the consumer still holds enough units, and the identical
\* reportUsage in the same block is refused with DuplicateUsage.
C11_Witness ==
    \E a \in ApiIds, c \in Addresses, r \in OffchainRefs :
        /\ getUsage(DerivedUsageId(a, c, 1, r)).status # "None"
        /\ _prepaidUnits[a][c] = 1
        /\ reportUsage(MeterWallet, a, c, 1, r).err = DuplicateUsage

(***************************************************************************)
(* C12.  Once an API is registered its provider and paymentToken never     *)
(* change: registerApi for a registered apiId fails with AlreadyExists for *)
(* every caller and every argument, updateApiConfig by anyone but the      *)
(* provider fails, both returning the chain state unchanged; and across    *)
(* every step the provider and paymentToken of a registered API keep their *)
(* values, while its pricePerUnit, metadataURI and active change only in   *)
(* an updateApiConfig sent by its provider.                                *)
(***************************************************************************)
C12_Refused ==
    \A s \in Callers, a \in ApiIds :
        /\ _apis[a].provider # ZeroAddress =>
              \A t \in {PAYMENT_TOKEN_ADDRESS, ZeroAddress}, p \in Prices,
                 m \in MetadataURIs :
                  /\ registerApi(s, a, t, p, m).err = AlreadyExists
                  /\ registerApi(s, a, t, p, m).st = Chain
        /\ (_apis[a].provider # ZeroAddress /\ s # _apis[a].provider) =>
              \A p \in Prices, m \in MetadataURIs, act \in BOOLEAN :
                  /\ updateApiConfig(s, a, p, m, act).err = Unauthorized
                  /\ updateApiConfig(s, a, p, m, act).st = Chain

C12_Step ==
    \A a \in ApiIds :
        _apis[a].provider # ZeroAddress =>
            /\ _apis'[a].provider = _apis[a].provider
            /\ _apis'[a].paymentToken = _apis[a].paymentToken
            /\ _apis'[a] # _apis[a] =>
                  \E p \in Prices, m \in MetadataURIs, act \in BOOLEAN :
                      UpdateApiConfig(_apis[a].provider, a, p, m, act)

C12_RegistryImmutable == []C12_Refused /\ [][C12_Step]_vars

\* An API registered by one account had its price and active flag changed by that
\* account; the other account can neither register it again nor update it.
C12_Witness ==
    \E a \in ApiIds :
        /\ _apis[a].provider = Alice
        /\ _apis[a].pricePerUnit = 0
        /\ ~_apis[a].active
        /\ registerApi(MeterWallet, a, PAYMENT_TOKEN_ADDRESS, 1, "ipfs://demo-x402-api/").err
               = AlreadyExists
        /\ updateApiConfig(MeterWallet, a, 1, "ipfs://demo-x402-api/", TRUE).err
               = Unauthorized

(***************************************************************************)
(* C13.  In every reachable state every registered API (provider set) has  *)
(* pricePerUnit > 0.                                                       *)
(***************************************************************************)
C13_PricePositive ==
    \A a \in ApiIds : _apis[a].provider # ZeroAddress => _apis[a].pricePerUnit > 0

(***************************************************************************)
(* C14.  updateApiConfig and withdraw for an apiId that was never          *)
(* registered fail with NotFound for every caller and leave the ledger     *)
(* unchanged.                                                              *)
(***************************************************************************)
C14_UnregisteredNotFound ==
    \A s \in Callers, a \in ApiIds :
        _apis[a].provider = ZeroAddress =>
            /\ \A p \in Prices, m \in MetadataURIs, act \in BOOLEAN :
                  /\ updateApiConfig(s, a, p, m, act).err = NotFound
                  /\ updateApiConfig(s, a, p, m, act).st = Chain
            /\ \A n \in Amounts, to \in Addresses :
                  /\ withdrawProviderRevenue(s, a, n, to).err = NotFound
                  /\ withdrawProviderRevenue(s, a, n, to).st = Chain

(***************************************************************************)
(* C15.  withdraw on a registered API fails with Unauthorized when the     *)
(* caller is not the API's provider, and, called by the provider, fails    *)
(* with InvalidArgument when amount <= 0 or amount > the revenue balance;  *)
(* every failing withdraw returns the chain state unchanged (revenue       *)
(* balance and custody included); across every step a successful           *)
(* withdraw(apiId, amount, destination) lowers the balance by exactly      *)
(* amount, raises the destination's tokens by exactly amount and lowers    *)
(* the ledger's custody by the same.                                       *)
(***************************************************************************)
C15_Refused ==
    \A s \in Callers, a \in ApiIds, n \in Amounts, to \in Addresses \cup {ZeroAddress} :
        LET res == withdrawProviderRevenue(s, a, n, to) IN
        _apis[a].provider # ZeroAddress =>
            /\ s # _apis[a].provider => res.err = Unauthorized
            /\ (s = _apis[a].provider /\ (n <= 0 \/ n > _providerBalances[a])) =>
                  res.err \in InvalidArgument
            /\ res.err # Ok => res.st = Chain

C15_Step ==
    \A s \in Callers, a \in ApiIds, n \in Amounts, to \in Addresses :
        WithdrawProviderRevenue(s, a, n, to) =>
            /\ _providerBalances'[a] = _providerBalances[a] - n
            /\ tokenBalance'[to] = tokenBalance[to] + n
            /\ tokenBalance'[X402_ADDRESS] = tokenBalance[X402_ADDRESS] - n
            /\ \A b \in ApiIds \ {a} : _providerBalances'[b] = _providerBalances[b]

C15_WithdrawErrors == []C15_Refused /\ [][C15_Step]_vars

\* A provider withdrew part of its API's revenue to the other account; asking for more
\* than what is left, or for nothing, is refused, and so is the other account.
C15_Witness ==
    \E a \in ApiIds :
        /\ _apis[a].provider = MeterWallet
        /\ withdrawn[a] = 1
        /\ _providerBalances[a] = 1
        /\ tokenBalance[Alice] = 1
        /\ withdrawProviderRevenue(MeterWallet, a, 2, Alice).err = InvalidAmount
        /\ withdrawProviderRevenue(MeterWallet, a, 0, Alice).err = InvalidAmount
        /\ withdrawProviderRevenue(Alice, a, 1, Alice).err = Unauthorized

(***************************************************************************)
(* C16.  prepay fails with NotFound if the API is unregistered, with       *)
(* Inactive if it is registered and its active flag is false, and with     *)
(* InvalidArgument if it is registered and active and units <= 0; every    *)
(* failing prepay returns the chain state unchanged (no tokens moved, no   *)
(* prepaid balance changed); and across every step a prepaid balance of an *)
(* API grows only while the API is active, so a deactivated API takes no   *)
(* prepay until updateApiConfig reactivates it.                            *)
(***************************************************************************)
C16_Refused ==
    \A s \in Callers, a \in ApiIds, u \in Units, c \in Addresses \cup {ZeroAddress} :
        LET res == prepay(s, a, u, c) IN
        /\ _apis[a].provider = ZeroAddress => res.err = NotFound
        /\ (_apis[a].provider # ZeroAddress /\ ~_apis[a].active) => res.err = Inactive
        /\ (_apis[a].provider # ZeroAddress /\ _apis[a].active /\ u <= 0) =>
              res.err \in InvalidArgument
        /\ res.err # Ok => res.st = Chain

C16_Step ==
    \A a \in ApiIds :
        (\E c \in Addresses : _prepaidUnits'[a][c] > _prepaidUnits[a][c])
            => _apis[a].active

C16_PrepayErrors == []C16_Refused /\ [][C16_Step]_vars

\* An API took a prepayment, was deactivated, and now refuses a prepay its payer
\* could afford; reactivated, and with the same arguments, it would accept it.
C16_Witness ==
    \E a \in ApiIds :
        /\ _apis[a].provider # ZeroAddress
        /\ ~_apis[a].active
        /\ _apis[a].pricePerUnit = 1
        /\ _prepaidUnits[a][Alice] = 1
        /\ tokenBalance[Alice] >= 1
        /\ prepay(Alice, a, 1, Alice).err = Inactive
        /\ updateApiConfig(_apis[a].provider, a, 1, "ipfs://demo-x402-api/", TRUE).err = Ok

(***************************************************************************)
(* C17.  Expired requests.                                                 *)
(***************************************************************************)
\* The signature the consumer of a body makes for an endpoint's API under this
\* deployment's domain.
ExpectedSignature(body, apiId) ==
    signTypedData(body.consumer, DeployedDomain,
                  Message(body.consumer, apiId, body.nonce, body.deadline))

WellFormed(body) ==
    /\ body.consumer \in Addresses
    /\ body.nonce # 0 /\ body.deadline # 0 /\ body.signature # NoSignature

\* C17 as stated: verify of a request that carries a deadline earlier than the
\* current time fails with Expired whatever its other fields are (signature
\* present or not, valid or not, consumer well-formed or not).
C17_AsStated ==
    \A body \in Bodies, e \in Endpoints :
        (body.deadline # 0 /\ body.deadline < now) =>
            verifySignedRequest(body, EndpointApiId(e)).err = Expired

\* C17 as amended: verify of a request whose deadline is earlier than the
\* current time always fails: with Expired when the request is well-formed
\* (consumer an address, nonce and signature present), whether or not its
\* signature is valid, and with Malformed when it is not, the well-formedness
\* tests coming first.
C17_ExpiredRefused ==
    \A body \in Bodies, e \in Endpoints :
        (body.deadline # 0 /\ body.deadline < now) =>
            LET v == verifySignedRequest(body, EndpointApiId(e)) IN
            IF WellFormed(body) THEN v.err = Expired ELSE v.err \in Malformed

\* Across every step, a request enters reportUsage only with a deadline that has
\* not passed; a request leaving verify any other way is answered 400 with the
\* ledger and the history untouched; and a request answered 400 goes no
\* further (it sends neither reportUsage nor settleUsage).
C17_Step ==
    \A c \in RequestIds :
        /\ (requests[c].pc = "idle" /\ requests'[c].pc = "reportUsage") =>
              requests'[c].body.deadline >= now
        /\ (requests[c].pc = "idle" /\ requests'[c].pc # "idle"
               /\ requests'[c].pc # "reportUsage") =>
              /\ requests'[c].pc = "done"
              /\ requests'[c].status = 400
              /\ UNCHANGED <<ledgerVars, tokenVars, usageHistory>>
        /\ requests[c].status = 400 => requests'[c] = requests[c]

C17_ExpiredAlwaysFails == []C17_ExpiredRefused /\ [][C17_Step]_vars

\* A request was answered 400 for an expired signature, and at the current time a
\* body validly signed by its consumer for the endpoint is refused as Expired.
C17_Witness ==
    \E c \in RequestIds, body \in Bodies :
        /\ requests[c].pc = "done"
        /\ requests[c].status = 400
        /\ requests[c].details = Expired
        /\ _usageRecords = <<>>
        /\ WellFormed(body)
        /\ body.signature = ExpectedSignature(body, API_ID_HELLO)
        /\ body.deadline < now
        /\ verifySignedRequest(body, API_ID_HELLO).err = Expired

(***************************************************************************)
(* C18.  verify at an endpoint accepts a well-formed, unexpired request    *)
(* exactly when its signature is the one made by the key of                *)
(* payload.consumer over (this deployment's domain: chainId and ledger     *)
(* address; consumer; that endpoint's apiId; nonce; deadline), and then    *)
(* returns the consumer; any other signature (another signer, another      *)
(* apiId, another domain, another nonce or deadline) is rejected with      *)
(* InvalidSignature.  No request is accepted without that signature.       *)
(***************************************************************************)
C18_Binding ==
    \A body \in Bodies, e \in Endpoints :
        LET v == verifySignedRequest(body, EndpointApiId(e)) IN
        /\ v.err = Ok =>
              /\ body.signature = ExpectedSignature(body, EndpointApiId(e))
              /\ v.consumer = body.consumer
        /\ (WellFormed(body) /\ body.deadline >= now
               /\ body.signature # ExpectedSignature(body, EndpointApiId(e))) =>
              v.err = InvalidSignature

C18_Step ==
    \A c \in RequestIds :
        (requests[c].pc = "idle" /\ requests'[c].pc = "reportUsage") =>
            /\ requests'[c].body.signature
                   = ExpectedSignature(requests'[c].body,
                                       EndpointApiId(requests'[c].endpoint))
            /\ requests'[c].consumer = requests'[c].body.consumer

C18_SignatureBinding == []C18_Binding /\ [][C18_Step]_vars

\* A request signed for the Hello API was accepted at /demo/hello; the same body is
\* rejected at /random/number, and so is the body carrying the signature another key
\* made over the same message, or the consumer's signature under another domain.
C18_Witness ==
    \E c \in RequestIds :
        LET body == requests[c].body IN
        /\ requests[c].pc = "reportUsage"
        /\ requests[c].endpoint = "/demo/hello"
        /\ verifySignedRequest(body, API_ID_HELLO).err = Ok
        /\ verifySignedRequest(body, API_ID_RANDOM).err = InvalidSignature
        /\ \E sig \in Signatures :
              /\ sig.signer = MeterWallet
              /\ sig.digest = body.signature.digest
              /\ verifySignedRequest([body EXCEPT !.signature = sig], API_ID_HELLO).err
                     = InvalidSignature
        /\ \E sig \in Signatures :
              /\ sig.signer = Alice
              /\ sig.digest[1] # DeployedDomain
              /\ sig.digest[2] = body.signature.digest[2]
              /\ verifySignedRequest([body EXCEPT !.signature = sig], API_ID_HELLO).err
                     = InvalidSignature

(***************************************************************************)
(* C19.  Replay protection is deadline-based only.  In every reachable     *)
(* state, whatever requests were served before and whatever the usage      *)
(* history holds, a body validly signed by its consumer for an endpoint is *)
(* accepted there if currentTime <= deadline and rejected (Expired) if the *)
(* deadline has passed; so one signature drives as many reportUsage /      *)
(* settleUsage cycles as the balance pays for.                             *)
(***************************************************************************)
C19_DeadlineOnly ==
    \A body \in Bodies, e \in Endpoints :
        (WellFormed(body) /\ body.signature = ExpectedSignature(body, EndpointApiId(e))) =>
            verifySignedRequest(body, EndpointApiId(e)).err
                = IF body.deadline < now THEN Expired ELSE Ok

\* Two requests carrying the same body and signature were both served (200), each
\* with its own usageId and each debiting one unit; the deadline has passed since,
\* and the same body is now rejected.
C19_Witness ==
    \E c1, c2 \in RequestIds :
        /\ c1 # c2
        /\ requests[c1].status = 200 /\ requests[c2].status = 200
        /\ requests[c1].body = requests[c2].body
        /\ requests[c1].endpoint = requests[c2].endpoint
        /\ requests[c1].usageId # requests[c2].usageId
        /\ _usageRecords[requests[c1].usageId].status = "Settled"
        /\ _usageRecords[requests[c2].usageId].status = "Settled"
        /\ Len(usageHistory) = 2
        /\ _prepaidUnits[EndpointApiId(requests[c1].endpoint)][Alice] = 0
        /\ requests[c1].body.deadline < now
        /\ verifySignedRequest(requests[c1].body,
                               EndpointApiId(requests[c1].endpoint)).err = Expired

(***************************************************************************)
(* C20.  The order of a handler's steps.  In every reachable state a       *)
(* request waiting to settle holds the usageId of a record its own         *)
(* reportUsage created, and a request answered 200 has its record Settled, *)
(* its entry in the history and {apiId, units, usageId} in its response.   *)
(* Across every step a request moves only verify -> reportUsage ->         *)
(* settleUsage -> 200, or to 400 from verify, or to 500 from reportUsage   *)
(* or settleUsage: it enters reportUsage only when verify with its         *)
(* endpoint's apiId succeeded; it enters settleUsage only when its         *)
(* reportUsage was mined, holding the usageId that call returned; it       *)
(* answers 200 and appends its history entry only in the step in which its *)
(* settleUsage moves that record from Reported to Settled; and every usage *)
(* record is created by a request's reportUsage step.                      *)
(***************************************************************************)
C20_Inv ==
    \A c \in RequestIds :
        LET q == requests[c] IN
        /\ q.pc = "settleUsage" =>
              /\ q.usageId \in DOMAIN _usageRecords
              /\ _usageRecords[q.usageId].apiId = EndpointApiId(q.endpoint)
              /\ _usageRecords[q.usageId].consumer = q.consumer
              /\ _usageRecords[q.usageId].offchainRef = OffchainRef(q.endpoint, c)
        /\ q.status = 200 =>
              /\ q.pc = "done"
              /\ _usageRecords[q.usageId].status = "Settled"
              /\ q.billing = [apiId |-> EndpointApiId(q.endpoint), units |-> 1,
                              usageId |-> q.usageId]
              /\ \E k \in 1..Len(usageHistory) :
                    /\ usageHistory[k].usageId = q.usageId
                    /\ usageHistory[k].requestId = c
        /\ q.pc \in {"idle", "reportUsage"} => q.usageId = <<>>

C20_Step ==
    /\ \A c \in RequestIds :
          LET q == requests[c]
              q2 == requests'[c]
          IN
          /\ q2 # q =>
                <<q.pc, q2.pc>> \in {<<"idle", "reportUsage">>, <<"idle", "done">>,
                                     <<"reportUsage", "settleUsage">>,
                                     <<"reportUsage", "done">>,
                                     <<"settleUsage", "done">>}
          /\ (q.pc = "idle" /\ q2.pc = "reportUsage") =>
                /\ verifySignedRequest(q2.body, EndpointApiId(q2.endpoint)).err = Ok
                /\ UNCHANGED <<ledgerVars, usageHistory>>
          /\ (q.pc = "idle" /\ q2.pc = "done") =>
                /\ q2.status = 400
                /\ UNCHANGED <<ledgerVars, usageHistory>>
          /\ (q.pc = "reportUsage" /\ q2.pc = "settleUsage") =>
                /\ reportUsage(MeterWallet, EndpointApiId(q.endpoint), q.consumer, 1,
                               OffchainRef(q.endpoint, c)).err = Ok
                /\ q2.usageId = reportUsage(MeterWallet, EndpointApiId(q.endpoint),
                                            q.consumer, 1,
                                            OffchainRef(q.endpoint, c)).usageId
                /\ q2.usageId \notin DOMAIN _usageRecords
                /\ q2.usageId \in DOMAIN _usageRecords'
                /\ _usageRecords'[q2.usageId].status = "Reported"
                /\ usageHistory' = usageHistory
          /\ (q.pc = "reportUsage" /\ q2.pc = "done") =>
                /\ q2.status = 500
                /\ UNCHANGED <<ledgerVars, usageHistory>>
          /\ (q.pc = "settleUsage" /\ q2.pc = "done") =>
                IF q2.status = 200
                THEN /\ _usageRecords[q.usageId].status = "Reported"
                     /\ _usageRecords'[q.usageId].status = "Settled"
                     /\ q2.usageId = q.usageId
                     /\ usageHistory' = Append(usageHistory,
                           [usageId |-> q.usageId, apiId |-> EndpointApiId(q.endpoint),
                            consumer |-> q.consumer, units |-> 1, timestamp |-> now,
                            requestId |-> c])
                ELSE /\ q2.status = 500
                     /\ UNCHANGED <<ledgerVars, usageHistory>>
    /\ \A id \in DOMAIN _usageRecords' \ DOMAIN _usageRecords :
          \E c \in RequestIds :
              /\ requests[c].pc = "reportUsage"
              /\ requests'[c].pc = "settleUsage"
              /\ requests'[c].usageId = id
    /\ usageHistory' # usageHistory =>
          \E c \in RequestIds : requests[c].pc = "settleUsage" /\ requests'[c].status = 200

C20_HandlerOrder == []C20_Inv /\ [][C20_Step]_vars

\* One request went through verify, reportUsage and settleUsage and was answered 200
\* with its history entry; another verified and reported, found its record already
\* settled by a direct call, and was answered 500 with no history entry.
C20_Witness ==
    \E c1, c2 \in RequestIds :
        /\ requests[c1].status = 200
        /\ requests[c2].status = 500
        /\ requests[c2].details = InvalidState
        /\ _usageRecords[requests[c1].usageId].status = "Settled"
        /\ _usageRecords[requests[c2].usageId].status = "Settled"
        /\ Len(usageHistory) = 1
        /\ usageHistory[1].usageId = requests[c1].usageId

(***************************************************************************)
(* C21.  Concurrent gateway requests cannot double-spend a prepaid         *)
(* balance.  In every reachable state no prepaid balance is negative and   *)
(* the units reported never exceed the units prepaid (units held plus      *)
(* units in records equal the units paid for).  Across every step, a       *)
(* request's reportUsage succeeds only on a balance of at least one unit,  *)
(* which it lowers by exactly one; a request whose reportUsage fails found *)
(* the balance empty, fails with InsufficientBalance and debits nothing.   *)
(* So of N verified requests racing on a balance B at most B succeed.      *)
(***************************************************************************)
C21_Inv ==
    /\ \A a \in ApiIds, c \in Addresses : _prepaidUnits[a][c] >= 0
    /\ \A a \in ApiIds :
          StartupPrice
              * (SumOver(Addresses, [c \in Addresses |-> _prepaidUnits[a][c]])
                 + SumOver({id \in DOMAIN _usageRecords : _usageRecords[id].apiId = a},
                           [id \in DOMAIN _usageRecords |-> _usageRecords[id].units]))
            = received[a]

C21_Step ==
    \A c \in RequestIds :
        LET q == requests[c]
            a == EndpointApiId(q.endpoint)
        IN
        /\ (q.pc = "reportUsage" /\ requests'[c].pc = "settleUsage") =>
              /\ _prepaidUnits[a][q.consumer] >= 1
              /\ _prepaidUnits'[a][q.consumer] = _prepaidUnits[a][q.consumer] - 1
        /\ (q.pc = "reportUsage" /\ requests'[c].pc = "done") =>
              /\ _prepaidUnits[a][q.consumer] = 0
              /\ requests'[c].details = InsufficientBalance
              /\ _prepaidUnits' = _prepaidUnits

C21_NoDoubleSpend == []C21_Inv /\ [][C21_Step]_vars

\* One unit was ever prepaid for an API; of two requests verified for it, one
\* reported that unit and the other failed with InsufficientBalance.
C21_Witness ==
    \E c1, c2 \in RequestIds :
        LET a == EndpointApiId(requests[c1].endpoint) IN
        /\ c1 # c2
        /\ requests[c1].endpoint = requests[c2].endpoint
        /\ received[a] = StartupPrice
        /\ requests[c1].usageId \in DOMAIN _usageRecords
        /\ requests[c2].pc = "done"
        /\ requests[c2].status = 500
        /\ requests[c2].details = InsufficientBalance
        /\ _prepaidUnits[a][Alice] = 0

(***************************************************************************)
(* C22.  The outcome of reportUsage and of settleUsage does not depend on  *)
(* who calls: in every reachable state, for the same arguments, the calls  *)
(* of any two callers return the same error or success, the same usageId   *)
(* and the same chain state; so any caller debits any consumer's prepaid   *)
(* balance and settles any Reported record.                                *)
(***************************************************************************)
C22_CallerIndependent ==
    /\ \A s1, s2 \in Callers, a \in ApiIds, c \in Addresses, u \in Units,
          r \in OffchainRefs :
          reportUsage(s1, a, c, u, r) = reportUsage(s2, a, c, u, r)
    /\ \A s1, s2 \in Callers, id \in UsageIds :
          settleUsage(s1, id) = settleUsage(s2, id)
    /\ \A s \in Callers, a \in ApiIds, c \in Addresses, r \in OffchainRefs :
          (/\ _apis[a].provider # ZeroAddress
           /\ _prepaidUnits[a][c] >= 1
           /\ getUsage(DerivedUsageId(a, c, 1, r)).status = "None") =>
              reportUsage(s, a, c, 1, r).err = Ok
    /\ \A s \in Callers, id \in DOMAIN _usageRecords :
          _usageRecords[id].status = "Reported" => settleUsage(s, id).err = Ok

\* An API registered by one account holds a prepaid unit of that account and a
\* Reported record of the other: the other account, not the provider, can debit the
\* provider's own unit by reportUsage, and either account can settle the record.
C22_Witness ==
    \E a \in ApiIds, id \in DOMAIN _usageRecords :
        /\ _apis[a].provider = Alice
        /\ _prepaidUnits[a][Alice] = 1
        /\ _usageRecords[id].apiId = a
        /\ _usageRecords[id].consumer = MeterWallet
        /\ _usageRecords[id].status = "Reported"
        /\ settleUsage(MeterWallet, id).err = Ok
        /\ settleUsage(Alice, id).err = Ok
        /\ reportUsage(MeterWallet, a, Alice, 1, "ref1").err = Ok

(***************************************************************************)
(* C23.  Read-only queries observe a consistent snapshot: the response of  *)
(* GET /provider-info (per-API config and balance, totalBalance) and of    *)
(* GET /status (prepaidUnits, config, providerBalance) is the response one *)
(* single ledger state that existed between the request's start and its    *)
(* end would have given, whatever transactions are mined meanwhile.        *)
(***************************************************************************)
C23_ConsistentSnapshot ==
    \A r \in ReadRequests :
        rd[r].status = 200 => rd[r].response \in rd[r].seen

(***************************************************************************)
(* C24.  Solvency: in every reachable state the payment token held in the  *)
(* ledger's custody is at least the sum of the revenue balances of all     *)
(* APIs, so every withdraw of an amount within the recorded revenue        *)
(* balance can be paid out.                                                *)
(***************************************************************************)
C24_Solvency ==
    /\ tokenBalance[X402_ADDRESS] >= SumOver(ApiIds, _providerBalances)
    /\ \A a \in ApiIds, n \in Amounts, to \in Addresses :
          (n > 0 /\ n <= _providerBalances[a]) =>
              withdrawProviderRevenue(_apis[a].provider, a, n, to).err = Ok

(***************************************************************************)
(* C25.  Value conservation at a fixed price: for an API whose             *)
(* pricePerUnit never changes after registration, in every reachable state *)
(* the tokens received by prepay for it equal pricePerUnit * (the prepaid  *)
(* units of all consumers + the units of its Reported records) + its       *)
(* revenue balance + the tokens withdrawn for it.                          *)
(***************************************************************************)
ReportedUnits(apiId) ==
    SumOver(RecordsOf(apiId, "Reported"),
            [id \in RecordsOf(apiId, "Reported") |-> _usageRecords[id].units])

C25_Conservation ==
    \A a \in ApiIds :
        received[a]
            = _apis[a].pricePerUnit
                * (SumOver(Addresses, [c \in Addresses |-> _prepaidUnits[a][c]])
                   + ReportedUnits(a))
              + _providerBalances[a] + withdrawn[a]

\* Two units were paid for: one is in a Reported record, the other was reported,
\* settled and withdrawn.
C25_Witness ==
    \E a \in ApiIds :
        /\ received[a] = 2
        /\ _prepaidUnits[a][Alice] = 0
        /\ ReportedUnits(a) = 1
        /\ _providerBalances[a] = 0
        /\ withdrawn[a] = 1

(***************************************************************************)
(* C26.  A business request that ends with the "Billing failed" (500)      *)
(* response has not charged the consumer: no usage record carrying the     *)
(* request's own offchainRef exists, so the debit of its reportUsage is    *)
(* not in the consumer's balance.                                          *)
(***************************************************************************)
C26_FailedNotCharged ==
    \A c \in RequestIds :
        requests[c].status = 500 =>
            ~ \E id \in DOMAIN _usageRecords :
                  _usageRecords[id].offchainRef = OffchainRef(requests[c].endpoint, c)

(***************************************************************************)
(* C27.  Every entry of usageHistory has a ledger record with the same     *)
(* usageId, apiId, consumer and units whose status is Settled, and no      *)
(* usageId occurs twice.  Across every step the history keeps its entries  *)
(* as they are and grows by at most one, appended in the step in which a   *)
(* request that had reported settles its own record (Reported to Settled). *)
(***************************************************************************)
C27_Inv ==
    /\ \A k \in 1..Len(usageHistory) :
          LET h == usageHistory[k] IN
          /\ h.usageId \in DOMAIN _usageRecords
          /\ _usageRecords[h.usageId].apiId = h.apiId
          /\ _usageRecords[h.usageId].consumer = h.consumer
          /\ _usageRecords[h.usageId].units = h.units
          /\ _usageRecords[h.usageId].status = "Settled"
    /\ \A k, j \in 1..Len(usageHistory) :
          k # j => usageHistory[k].usageId # usageHistory[j].usageId

C27_Step ==
    \/ usageHistory' = usageHistory
    \/ /\ Len(usageHistory') = Len(usageHistory) + 1
       /\ SubSeq(usageHistory', 1, Len(usageHistory)) = usageHistory
       /\ \E c \in RequestIds :
             /\ requests[c].pc = "settleUsage"
             /\ usageHistory'[Len(usageHistory')].usageId = requests[c].usageId
             /\ usageHistory'[Len(usageHistory')].requestId = c
             /\ _usageRecords[requests[c].usageId].status = "Reported"
             /\ _usageRecords'[requests[c].usageId].status = "Settled"

C27_HistoryMatchesLedger == []C27_Inv /\ [][C27_Step]_vars

\* The history holds one entry for each of the two APIs, each with its Settled
\* record.
C27_Witness ==
    /\ Len(usageHistory) = 2
    /\ usageHistory[1].apiId # usageHistory[2].apiId
    /\ \A k \in 1..2 : _usageRecords[usageHistory[k].usageId].status = "Settled"

(***************************************************************************)
(* C28.  Under fair scheduling of the handlers, every record a gateway     *)
(* request has brought to Reported eventually is Settled, and every        *)
(* accepted request eventually terminates with exactly one response, whose *)
(* status is 400, 500 or 200 and which is never replaced afterwards.       *)
(***************************************************************************)
C28_Responded(c) ==
    /\ requests[c].pc = "done"
    /\ requests[c].status \in {200, 400, 500}

C28_Progress ==
    /\ \A c \in RequestIds :
          /\ (requests[c].pc = "settleUsage")
                ~> (/\ requests[c].usageId \in DOMAIN _usageRecords
                    /\ _usageRecords[requests[c].usageId].status = "Settled")
          /\ (requests[c].pc # "idle") ~> C28_Responded(c)
    /\ [][\A c \in RequestIds :
             requests[c].pc = "done" => requests'[c] = requests[c]]_vars

\* Both requests have terminated, one with 200 and one with 500, and the
\* records both of them reported are Settled.
C28_Witness ==
    \E c, d \in RequestIds :
        /\ requests[c].pc = "done" /\ requests[c].status = 200
        /\ requests[d].pc = "done" /\ requests[d].status = 500
        /\ \A x \in {c, d} :
              /\ requests[x].usageId \in DOMAIN _usageRecords
              /\ _usageRecords[requests[x].usageId].status = "Settled"

(***************************************************************************)
(* C29.  The gateway accepts business requests only after its startup has  *)
(* completed: a request is verified only when the server listens, with the *)
(* domain's chainId set (never the placeholder 0), and usage is reported   *)
(* only after ensureApisRegistered has gone through the whole API list, so *)
(* that every listed API is registered.  The server starts to listen only  *)
(* from the last step of ensureApisRegistered.                             *)
(***************************************************************************)
C29_Inv ==
    /\ \A c \in RequestIds :
          requests[c].pc # "idle" =>
              /\ server.pc = "listening"
              /\ server.chainId = ChainId
              /\ eip712Domain.chainId # 0
    /\ (_usageRecords # <<>> \/ server.pc = "listening") =>
          /\ server.pc = "listening"
          /\ \A k \in 1..Len(API_LIST) : _apis[API_LIST[k]].provider # ZeroAddress

C29_Step ==
    /\ requests' # requests => server.pc = "listening" /\ server.chainId # 0
    /\ (server.pc # "listening" /\ server'.pc = "listening") =>
          /\ server.pc \in {"getApiConfig", "registerApi"}
          /\ server.i = Len(API_LIST)
    /\ server.pc \in {"listening", "crashed"} => server' = server

C29_StartupFirst == []C29_Inv /\ [][C29_Step]_vars

\* The server has registered an API itself, listens, and has answered a
\* request with 200.
C29_Witness ==
    /\ server.pc = "listening"
    /\ \E a \in ApiIds : _apis[a].provider = MeterWallet
    /\ \E c \in RequestIds : requests[c].status = 200

(***************************************************************************)
(* C30.  Deactivating an API blocks only new prepayments.  For a           *)
(* registered API whose active flag is false, every prepay fails with      *)
(* Inactive, while reportUsage, settleUsage and withdrawProviderRevenue    *)
(* succeed under exactly the conditions that hold for an active API, none  *)
(* of which reads the flag, and have their usual effect.                   *)
(***************************************************************************)
C30_DeactivationBlocksOnlyPrepay ==
    \A a \in ApiIds :
        (_apis[a].provider # ZeroAddress /\ ~_apis[a].active) =>
            /\ \A s \in Callers, u \in Units, c \in Addresses \cup {ZeroAddress} :
                  prepay(s, a, u, c).err = Inactive
            /\ \A s \in Callers, c \in Addresses, u \in Units, r \in OffchainRefs :
                  LET res == reportUsage(s, a, c, u, r) IN
                  /\ res.err = Ok
                        <=> /\ u > 0
                            /\ _prepaidUnits[a][c] >= u
                            /\ DerivedUsageId(a, c, u, r) \notin DOMAIN _usageRecords
                  /\ res.err = Ok =>
                        /\ res.st.prepaid[a][c] = _prepaidUnits[a][c] - u
                        /\ res.st.records[res.usageId].status = "Reported"
            /\ \A s \in Callers, id \in DOMAIN _usageRecords :
                  _usageRecords[id].apiId = a =>
                      LET res == settleUsage(s, id) IN
                      /\ res.err = Ok <=> _usageRecords[id].status = "Reported"
                      /\ res.err = Ok =>
                            res.st.balances[a] = _providerBalances[a] + RecordAmount(id)
            /\ \A s \in Callers, n \in Amounts, to \in Addresses \cup {ZeroAddress} :
                  LET res == withdrawProviderRevenue(s, a, n, to) IN
                  /\ res.err = Ok
                        <=> /\ s = _apis[a].provider
                            /\ to # ZeroAddress
                            /\ n > 0 /\ n <= _providerBalances[a]
                            /\ tokenBalance[X402_ADDRESS] >= n
                  /\ res.err = Ok =>
                        res.st.balances[a] = _providerBalances[a] - n

\* A deactivated API refuses a prepay while a report of prepaid units and the
\* settlement of one of its Reported records both succeed.
C30_Witness ==
    \E a \in ApiIds :
        /\ _apis[a].provider # ZeroAddress
        /\ ~_apis[a].active
        /\ prepay(Alice, a, 1, Alice).err = Inactive
        /\ \E c \in Addresses, u \in 1..MaxUnits :
              reportUsage(MeterWallet, a, c, u, "ref1").err = Ok
        /\ \E id \in DOMAIN _usageRecords :
              /\ _usageRecords[id].apiId = a
              /\ settleUsage(Alice, id).err = Ok

(***************************************************************************)
(* C31.  Operations are isolated per key.  A prepay or reportUsage naming  *)
(* (apiId, consumer) leaves the prepaid balance of every other pair        *)
(* unchanged; settleUsage of a record of an API and a withdraw for an API  *)
(* leave the revenue balance of every other API unchanged; prepay,         *)
(* reportUsage, settleUsage and withdraw leave every config unchanged, and *)
(* registerApi and updateApiConfig leave the config of every other API     *)
(* unchanged.  Across every step, an API's config changes only in a        *)
(* registerApi or updateApiConfig naming that API.                         *)
(***************************************************************************)
C31_OtherPrepaid(st, a, c) ==
    \A b \in ApiIds, d \in Addresses :
        <<b, d>> # <<a, c>> => st.prepaid[b][d] = _prepaidUnits[b][d]

C31_OtherBalances(st, a) ==
    \A b \in ApiIds : b # a => st.balances[b] = _providerBalances[b]

C31_OtherConfigs(st, a) ==
    \A b \in ApiIds : b # a => st.apis[b] = _apis[b]

C31_Frame ==
    /\ \A s \in Callers, a \in ApiIds, u \in Units, c \in Addresses :
          LET st == prepay(s, a, u, c).st IN
          /\ C31_OtherPrepaid(st, a, c)
          /\ st.balances = _providerBalances
          /\ st.apis = _apis
    /\ \A s \in Callers, a \in ApiIds, c \in Addresses, u \in Units, r \in OffchainRefs :
          LET st == reportUsage(s, a, c, u, r).st IN
          /\ C31_OtherPrepaid(st, a, c)
          /\ st.balances = _providerBalances
          /\ st.apis = _apis
    /\ \A s \in Callers, id \in DOMAIN _usageRecords :
          LET st == settleUsage(s, id).st IN
          /\ C31_OtherBalances(st, _usageRecords[id].apiId)
          /\ st.prepaid = _prepaidUnits
          /\ st.apis = _apis
    /\ \A s \in Callers, a \in ApiIds, n \in Amounts, to \in Addresses :
          LET st == withdrawProviderRevenue(s, a, n, to).st IN
          /\ C31_OtherBalances(st, a)
          /\ st.prepaid = _prepaidUnits
          /\ st.apis = _apis
    /\ \A s \in Callers, a \in ApiIds, t \in {PAYMENT_TOKEN_ADDRESS, ZeroAddress},
          p \in Prices, m \in MetadataURIs :
          C31_OtherConfigs(registerApi(s, a, t, p, m).st, a)
    /\ \A s \in Callers, a \in ApiIds, p \in Prices, m \in MetadataURIs, act \in BOOLEAN :
          C31_OtherConfigs(updateApiConfig(s, a, p, m, act).st, a)

C31_Step ==
    \A a \in ApiIds :
        _apis'[a] # _apis[a] =>
            \/ \E s \in Callers, t \in {PAYMENT_TOKEN_ADDRESS, ZeroAddress},
                  p \in Prices, m \in MetadataURIs : RegisterApi(s, a, t, p, m)
            \/ \E s \in Callers, p \in Prices, m \in MetadataURIs, act \in BOOLEAN :
                  UpdateApiConfig(s, a, p, m, act)

C31_Isolation == []C31_Frame /\ [][C31_Step]_vars

\* One API holds revenue while a Reported record of the other
\* API is settled: the settlement succeeds and the first API keeps its balance.
C31_Witness ==
    \E a, b \in ApiIds :
        /\ a # b
        /\ _providerBalances[a] >= 1
        /\ \E id \in DOMAIN _usageRecords :
              /\ _usageRecords[id].apiId = b
              /\ RecordAmount(id) >= 1
              /\ settleUsage(MeterWallet, id).err = Ok
              /\ settleUsage(MeterWallet, id).st.balances[a] = _providerBalances[a]
              /\ settleUsage(MeterWallet, id).st.balances[b] > _providerBalances[b]

====
